---- MODULE Spec2Model ----
(***************************************************************************)
(* A model of the sparse-shape engine of TiledArray: per-tile scaled norms, *)
(* the zero threshold, the shape algebra, the distributed constructor, and  *)
(* the TA_ASSERT error-checking configurations.                             *)
(*                                                                          *)
(* Norms are exact nonnegative rationals <<n, d>> in lowest terms; float    *)
(* rounding is not modelled (the tests compare with a tolerance).           *)
(***************************************************************************)
EXTENDS Integers, Sequences, FiniteSets, TLC

(***************************************************************************)
(* Exact rational arithmetic                                                *)
(***************************************************************************)
RECURSIVE GCD(_, _)
GCD(a, b) == IF b = 0 THEN a ELSE GCD(b, a % b)

Abs(x) == IF x < 0 THEN -x ELSE x

\* the rational n/d (d # 0) in lowest terms with a positive denominator
Rat(n, d) ==
  LET sn == IF d < 0 THEN -n ELSE n
      sd == Abs(d)
      g  == GCD(Abs(sn), sd)
  IN  IF sn = 0 THEN <<0, 1>> ELSE <<sn \div g, sd \div g>>

Zero == <<0, 1>>
One == <<1, 1>>
FromInt(n) == <<n, 1>>

RatAdd(x, y) == Rat(x[1] * y[2] + y[1] * x[2], x[2] * y[2])
RatMul(x, y) == Rat(x[1] * y[1], x[2] * y[2])
RatDiv(x, y) == Rat(x[1] * y[2], x[2] * y[1])
RatAbs(x) == <<Abs(x[1]), x[2]>>
RatLess(x, y) == x[1] * y[2] < y[1] * x[2]
RatLeq(x, y) == x[1] * y[2] <= y[1] * x[2]

(***************************************************************************)
(* Tile geometry: a TiledRange is a sequence (one entry per mode) of        *)
(* sequences of tile sizes.  Tile indices and ordinals are 0-based,         *)
(* ordinals are row-major.                                                  *)
(***************************************************************************)
Rank(tr) == Len(tr)
Extents(tr) == [d \in 1..Len(tr) |-> Len(tr[d])]

RECURSIVE Product(_)
Product(seq) == IF seq = <<>> THEN 1 ELSE Head(seq) * Product(Tail(seq))

\* number of tiles of a tile grid with the given extents
Volume(ext) == Product(ext)

RECURSIVE Ordinal(_, _)
\* row-major ordinal of multi-index idx in a grid with extents ext
Ordinal(ext, idx) ==
  IF ext = <<>> THEN 0
  ELSE idx[1] * Product(Tail(ext)) + Ordinal(Tail(ext), Tail(idx))

RECURSIVE Idx(_, _)
\* multi-index of ordinal ord in a grid with extents ext
Idx(ext, ord) ==
  IF ext = <<>> THEN <<>>
  ELSE LET rest == Product(Tail(ext))
       IN  <<ord \div rest>> \o Idx(Tail(ext), ord % rest)

Ordinals(ext) == 0..(Volume(ext) - 1)

\* element count of the tile with ordinal ord
TileVolume(tr, ord) ==
  LET idx == Idx(Extents(tr), ord)
  IN  Product([d \in 1..Len(tr) |-> tr[d][idx[d] + 1]])

(***************************************************************************)
(* Permutations: p is a sequence over 1..rank; mode d of the argument       *)
(* becomes mode p[d] of the result, (p * idx)[p[d]] = idx[d].               *)
(***************************************************************************)
IsPerm(p, n) == /\ Len(p) = n
                /\ {p[d] : d \in 1..n} = 1..n

PermInv(p) == [e \in 1..Len(p) |-> CHOOSE d \in 1..Len(p) : p[d] = e]

\* p * seq
PermApply(p, seq) == [e \in 1..Len(seq) |-> seq[PermInv(p)[e]]]

IdentityPerm(n) == [d \in 1..n |-> d]

(***************************************************************************)
(* ThresholdPolicy                                                          *)
(***************************************************************************)
\* the policy that also zeroes a norm equal to the threshold
ApplyThreshold_leq(x, thr) == IF RatLeq(x, thr) THEN Zero ELSE x

\* a computed scaled norm below the threshold becomes a hard zero
ApplyThreshold(x, thr) == IF RatLess(x, thr) THEN Zero ELSE x

(***************************************************************************)
(* SparseShape values                                                       *)
(***************************************************************************)
\* default-constructed shape: no norm tensor
EmptyShape == [empty |-> TRUE, tr |-> <<>>, norms |-> <<>>]

MakeShape(tr, norms) == [empty |-> FALSE, tr |-> tr, norms |-> norms]

TileOrdinals(tr) == Ordinals(Extents(tr))

\* a constructor that stores the norms as given, without dividing by the
\* tile volume
SparseShapeCtor_unscaled(tile_norms, tr, thr) ==
  MakeShape(tr, [i \in TileOrdinals(tr) |-> ApplyThreshold(FromInt(tile_norms[i]), thr)])

\* SparseShape(tile_norms, trange): scale by the inverse tile volume, then
\* screen out the tiles below the threshold
SparseShapeCtor(tile_norms, tr, thr) ==
  MakeShape(tr,
    [i \in TileOrdinals(tr) |->
       ApplyThreshold(RatDiv(FromInt(tile_norms[i]), FromInt(TileVolume(tr, i))), thr)])

\* SparseShape(tile_norms, trange, do_not_scale = true): the norms are
\* already per-element; only screen out the tiles below the threshold
SparseShapeCtorNoScale(scaled_norms, tr, thr) ==
  MakeShape(tr, [i \in TileOrdinals(tr) |-> ApplyThreshold(scaled_norms[i], thr)])

\* the list the tests hand to the sparse constructor: the pair (multi-index,
\* norm) of every tile with a norm > 0
SparseTileNorms(tile_norms, tr) ==
  {<<Idx(Extents(tr), i), tile_norms[i]>> : i \in {j \in TileOrdinals(tr) : tile_norms[j] > 0}}

\* the norm tensor of a list of (multi-index, norm) pairs: the norm of a
\* listed tile at its ordinal, zero for the tiles that are not listed
DenseTileNorms(sparse_tile_norms, tr) ==
  [i \in TileOrdinals(tr) |->
     IF \E e \in sparse_tile_norms : Ordinal(Extents(tr), e[1]) = i
     THEN (CHOOSE e \in sparse_tile_norms : Ordinal(Extents(tr), e[1]) = i)[2]
     ELSE 0]

\* a sparse constructor that does not divide the norms by the tile volume
SparseShapeCtorSparse_unscaled(sparse_tile_norms, tr, thr) ==
  MakeShape(tr,
    [i \in TileOrdinals(tr) |->
       ApplyThreshold(FromInt(DenseTileNorms(sparse_tile_norms, tr)[i]), thr)])

\* SparseShape(sparse_tile_norms, trange): the listed norms scaled by the
\* inverse tile volume and screened, the other tiles zero
SparseShapeCtorSparse(sparse_tile_norms, tr, thr) ==
  MakeShape(tr,
    [i \in TileOrdinals(tr) |->
       ApplyThreshold(RatDiv(FromInt(DenseTileNorms(sparse_tile_norms, tr)[i]),
                             FromInt(TileVolume(tr, i))), thr)])

empty(s) == s.empty
is_dense(s) == FALSE
\* validate(range): the norm tensor covers exactly the tiles of the range
validate(s, ext) == (~s.empty) /\ Extents(s.tr) = ext

\* is_zero that also reports a tile whose norm equals the threshold
is_zero_leq(s, i, thr) == RatLeq(s.norms[i], thr)

\* is_zero(i): the stored norm is below the threshold
is_zero(s, i, thr) == RatLess(s.norms[i], thr)

ZeroTiles(s, thr) == {i \in TileOrdinals(s.tr) : is_zero(s, i, thr)}

\* fraction of zero tiles
sparsity(s, thr) == Rat(Cardinality(ZeroTiles(s, thr)), Volume(Extents(s.tr)))

\* tile_norms(): the unscaled norms, scaled norm times tile volume
tile_norms_of(s) ==
  [i \in TileOrdinals(s.tr) |-> RatMul(s.norms[i], FromInt(TileVolume(s.tr, i)))]

(***************************************************************************)
(* Shape algebra.  Every operation is a function of its operands and of the *)
(* threshold in force at the call.                                          *)
(***************************************************************************)
\* perm that looks the entries up with the permutation instead of its inverse:
\* result entry at idx is the argument's entry at p * idx
perm_inverse(s, p) ==
  LET ext  == Extents(s.tr)
      rtr  == PermApply(p, s.tr)
      rext == Extents(rtr)
  IN  MakeShape(rtr,
        [o \in Ordinals(rext) |->
           LET ridx == Idx(rext, o)
               aidx == [d \in 1..Len(ext) |-> ridx[PermInv(p)[d]]]
           IN  s.norms[Ordinal(ext, aidx) % Volume(ext)]])

\* perm(p): result entry at p * idx is the argument's entry at idx
perm(s, p) ==
  LET ext  == Extents(s.tr)
      rtr  == PermApply(p, s.tr)
      rext == Extents(rtr)
  IN  MakeShape(rtr,
        [o \in Ordinals(rext) |->
           LET ridx == Idx(rext, o)
               aidx == [d \in 1..Len(ext) |-> ridx[p[d]]]
           IN  s.norms[Ordinal(ext, aidx)]])

\* scale that returns the product without thresholding it
scale_unsnapped(s, factor, thr) ==
  MakeShape(s.tr, [i \in TileOrdinals(s.tr) |-> RatMul(s.norms[i], RatAbs(factor))])

\* scale(factor): |factor| * norm, thresholded
scale(s, factor, thr) ==
  MakeShape(s.tr,
    [i \in TileOrdinals(s.tr) |->
       ApplyThreshold(RatMul(s.norms[i], RatAbs(factor)), thr)])

\* add that bounds the sum by the larger of the two norms
add_max(s, other, factor, thr) ==
  MakeShape(s.tr,
    [i \in TileOrdinals(s.tr) |->
       ApplyThreshold(
         RatMul(IF RatLess(s.norms[i], other.norms[i]) THEN other.norms[i] ELSE s.norms[i],
                RatAbs(factor)), thr)])

\* add(other, factor): (left + right) * |factor|, thresholded
add(s, other, factor, thr) ==
  MakeShape(s.tr,
    [i \in TileOrdinals(s.tr) |->
       ApplyThreshold(RatMul(RatAdd(s.norms[i], other.norms[i]), RatAbs(factor)), thr)])

\* subt(other, factor): the same bound as add
subt(s, other, factor, thr) ==
  MakeShape(s.tr,
    [i \in TileOrdinals(s.tr) |->
       ApplyThreshold(RatMul(RatAdd(s.norms[i], other.norms[i]), RatAbs(factor)), thr)])

\* mult that leaves out the element count of the tile
mult_novolume(s, other, factor, thr) ==
  MakeShape(s.tr,
    [i \in TileOrdinals(s.tr) |->
       ApplyThreshold(RatMul(RatMul(s.norms[i], other.norms[i]), RatAbs(factor)), thr)])

\* mult(other, factor): left * right * volume * |factor|, thresholded
mult(s, other, factor, thr) ==
  MakeShape(s.tr,
    [i \in TileOrdinals(s.tr) |->
       ApplyThreshold(
         RatMul(RatMul(RatMul(s.norms[i], other.norms[i]),
                       FromInt(TileVolume(s.tr, i))), RatAbs(factor)), thr)])

\* mask that zeroes the tiles that are non-zero in the mask
mask_inverted(s, mask_shape, thr) ==
  MakeShape(s.tr,
    [i \in TileOrdinals(s.tr) |->
       IF ~RatLess(s.norms[i], thr) /\ ~RatLess(mask_shape.norms[i], thr)
       THEN Zero ELSE s.norms[i]])

\* mask(mask_shape): zero the tiles that are non-zero here and zero in the mask
mask(s, mask_shape, thr) ==
  MakeShape(s.tr,
    [i \in TileOrdinals(s.tr) |->
       IF ~RatLess(s.norms[i], thr) /\ RatLess(mask_shape.norms[i], thr)
       THEN Zero ELSE s.norms[i]])

\* the element-wise operators handed to transform(): the one of the test
\* suite doubles the entries of even ordinal and halves those of odd ordinal
TransformOps == {"double_even_halve_odd"}

ApplyOp(op, norms, i) ==
  IF i % 2 = 0 THEN RatMul(norms[i], FromInt(2)) ELSE RatDiv(norms[i], FromInt(2))

\* transform that returns a shape whose norm tensor was never assigned
transform_empty(s, op, thr) == EmptyShape

\* transform that hands op the unscaled norms, norm * volume of the tile
transform_unscaled(s, op, thr) ==
  MakeShape(s.tr,
    [i \in TileOrdinals(s.tr) |->
       ApplyThreshold(
         ApplyOp(op, [j \in TileOrdinals(s.tr) |->
                        RatMul(s.norms[j], FromInt(TileVolume(s.tr, j)))], i), thr)])

\* transform(op): op applied to the norm tensor, thresholded
transform(s, op, thr) ==
  MakeShape(s.tr,
    [i \in TileOrdinals(s.tr) |-> ApplyThreshold(ApplyOp(op, s.norms, i), thr)])

RECURSIVE RatSum(_)
RatSum(seq) == IF seq = <<>> THEN Zero ELSE RatAdd(Head(seq), RatSum(Tail(seq)))

\* unscaled norm of tile (i, k) of a rank-2 shape
Unscaled2(s, i, k) ==
  LET o == Ordinal(Extents(s.tr), <<i, k>>)
  IN  RatMul(s.norms[o], FromInt(TileVolume(s.tr, o)))

\* gemm that does not divide the contracted norm by the volume of the result tile
gemm_undivided(s, other, factor, thr) ==
  LET rtr  == <<s.tr[1], other.tr[2]>>
      rext == Extents(rtr)
      K    == Len(s.tr[2])
  IN  MakeShape(rtr,
        [o \in Ordinals(rext) |->
           LET ij  == Idx(rext, o)
               sum == RatSum([k \in 1..K |->
                        RatMul(Unscaled2(s, ij[1], k - 1), Unscaled2(other, k - 1, ij[2]))])
           IN  ApplyThreshold(RatMul(sum, RatAbs(factor)), thr)])

\* gemm(other, factor, GemmHelper(NoTrans, NoTrans, 2, 2, 2)): contraction of
\* the second mode of the left argument with the first mode of the right one
gemm(s, other, factor, thr) ==
  LET rtr  == <<s.tr[1], other.tr[2]>>
      rext == Extents(rtr)
      K    == Len(s.tr[2])
  IN  MakeShape(rtr,
        [o \in Ordinals(rext) |->
           LET ij  == Idx(rext, o)
               sum == RatSum([k \in 1..K |->
                        RatMul(Unscaled2(s, ij[1], k - 1), Unscaled2(other, k - 1, ij[2]))])
           IN  ApplyThreshold(
                 RatDiv(RatMul(sum, RatAbs(factor)), FromInt(TileVolume(rtr, o))), thr)])

\* the bounds check that accepts an empty block, lower[d] = upper[d]
ValidBlock_leq(s, lower, upper) ==
  /\ Len(lower) = Rank(s.tr) /\ Len(upper) = Rank(s.tr)
  /\ \A d \in 1..Rank(s.tr) : 0 <= lower[d] /\ lower[d] <= upper[d]
                                /\ upper[d] <= Len(s.tr[d])

\* a block [lower, upper) of the tile grid: lower[d] < upper[d] <= extent
ValidBlock(s, lower, upper) ==
  /\ Len(lower) = Rank(s.tr) /\ Len(upper) = Rank(s.tr)
  /\ \A d \in 1..Rank(s.tr) : 0 <= lower[d] /\ lower[d] < upper[d]
                                /\ upper[d] <= Len(s.tr[d])

\* block that copies the entries from the origin of the source instead of
\* from the lower bound
block_from_origin(s, lower, upper) ==
  LET ext  == Extents(s.tr)
      rtr  == [d \in 1..Len(s.tr) |-> SubSeq(s.tr[d], lower[d] + 1, upper[d])]
      rext == Extents(rtr)
  IN  MakeShape(rtr,
        [o \in Ordinals(rext) |->
           s.norms[Ordinal(ext, Idx(rext, o))]])

\* block(lower, upper): the entries of the block, addressed from 0
block(s, lower, upper) ==
  LET ext  == Extents(s.tr)
      rtr  == [d \in 1..Len(s.tr) |-> SubSeq(s.tr[d], lower[d] + 1, upper[d])]
      rext == Extents(rtr)
  IN  MakeShape(rtr,
        [o \in Ordinals(rext) |->
           LET ridx == Idx(rext, o)
           IN  s.norms[Ordinal(ext, [d \in 1..Len(ext) |-> ridx[d] + lower[d]])]])

(***************************************************************************)
(* The overloads that take a permutation of the result, and the blocks      *)
(* that take a scaling factor.  An overload without permutation is the one  *)
(* with the identity permutation.                                           *)
(***************************************************************************)
\* scale with permutation that multiplies by the factor, sign included
scale_perm_signed(s, factor, p, thr) ==
  perm(MakeShape(s.tr,
         [i \in TileOrdinals(s.tr) |->
            ApplyThreshold(RatMul(s.norms[i], factor), thr)]), p)

\* scale(factor, perm)
scale_perm(s, factor, p, thr) == perm(scale(s, factor, thr), p)

\* add(other, factor, perm)
add_perm(s, other, factor, p, thr) == perm(add(s, other, factor, thr), p)

\* subt that bounds the difference by the difference of the norms
subt_perm_difference(s, other, factor, p, thr) ==
  perm(MakeShape(s.tr,
         [i \in TileOrdinals(s.tr) |->
            ApplyThreshold(
              RatMul(RatAbs(RatAdd(s.norms[i], <<-other.norms[i][1], other.norms[i][2]>>)),
                     RatAbs(factor)), thr)]), p)

\* subt(other, factor, perm)
subt_perm(s, other, factor, p, thr) == perm(subt(s, other, factor, thr), p)

\* mult(other, factor, perm)
mult_perm(s, other, factor, p, thr) == perm(mult(s, other, factor, thr), p)

\* gemm(other, factor, gemm_helper, perm)
gemm_perm(s, other, factor, p, thr) == perm(gemm(s, other, factor, thr), p)

\* block(lower, upper, factor): the entries of the block times the factor
block_scale(s, lower, upper, factor) ==
  LET b == block(s, lower, upper)
  IN  MakeShape(b.tr, [o \in DOMAIN b.norms |-> RatMul(b.norms[o], factor)])

\* block(lower, upper, factor, perm)
block_scale_perm(s, lower, upper, factor, p) ==
  perm(block_scale(s, lower, upper, factor), p)

\* the nested scale computed as one scale by the product of the factors
scale_scale_once(s, factor1, factor2, thr) ==
  scale(s, RatMul(factor1, factor2), thr)

\* x.scale(s).scale(t)
scale_scale(s, factor1, factor2, thr) ==
  scale(scale(s, factor1, thr), factor2, thr)

\* the round trip that applies the permutation a second time
perm_perm_again(s, p) == perm(perm(s, p), p)

\* x.perm(p).perm(p.inv())
perm_perm_inv(s, p) == perm(perm(s, p), PermInv(p))

\* std::sqrt of a non-negative integer that is a perfect square
IntSqrt(n) == CHOOSE r \in 0..n : r * r = n

\* std::sqrt of a fraction in lowest terms whose terms are perfect squares
RatSqrt(x) == <<IntSqrt(x[1]), IntSqrt(x[2])>>

\* the scaled norm of a tile of volume elements that all hold the constant:
\* sqrt(value * value * volume) / volume
ConstNorm(value, volume) ==
  RatDiv(RatSqrt(RatMul(RatMul(value, value), FromInt(volume))), FromInt(volume))

\* add(value): norm + sqrt(value * value * volume) / volume, thresholded
add_const(s, value, thr) ==
  MakeShape(s.tr,
    [i \in TileOrdinals(s.tr) |->
       ApplyThreshold(RatAdd(s.norms[i], ConstNorm(value, TileVolume(s.tr, i))), thr)])

\* add(value, perm)
add_const_perm(s, value, p, thr) == perm(add_const(s, value, thr), p)

\* subt of a constant that adds the norm of the constant with the sign of
\* the constant
subt_const_signed(s, value, thr) ==
  MakeShape(s.tr,
    [i \in TileOrdinals(s.tr) |->
       ApplyThreshold(
         RatAdd(s.norms[i],
                RatMul(IF value[1] < 0 THEN <<-1, 1>> ELSE One,
                       ConstNorm(value, TileVolume(s.tr, i)))), thr)])

\* subt(value): the same bound as add(value)
subt_const(s, value, thr) ==
  MakeShape(s.tr,
    [i \in TileOrdinals(s.tr) |->
       ApplyThreshold(RatAdd(s.norms[i], ConstNorm(value, TileVolume(s.tr, i))), thr)])

\* subt(value, perm)
subt_const_perm(s, value, p, thr) == perm(subt_const(s, value, thr), p)

(***************************************************************************)
(* TA_ASSERT: the three error-checking configurations of error.h            *)
(***************************************************************************)
\* the preprocessor macros that select the behaviour of TA_ASSERT
Macros == {"TA_EXCEPTION_ERROR", "TA_ASSERT_ERROR", "TA_NO_ERROR", "NDEBUG"}

\* TA_ASSERT(a) that does not check, whatever the macros defined
TA_ASSERT_unchecked(defs, a) == "pass"

\* TA_ASSERT(a) that checks only in the build that throws exceptions
TA_ASSERT_exception_only(defs, a) ==
  IF "TA_EXCEPTION_ERROR" \in defs /\ ~a THEN "exception" ELSE "pass"

\* TA_ASSERT(a) in a build with the macros defs defined.  With
\* TA_EXCEPTION_ERROR (which supersedes TA_ASSERT_ERROR) a false a throws
\* TiledArray::Exception; with TA_ASSERT_ERROR it is assert(a) of <cassert>,
\* which aborts unless NDEBUG is defined; otherwise it expands to { ; }
TA_ASSERT(defs, a) ==
  IF "TA_EXCEPTION_ERROR" \in defs
  THEN IF a THEN "pass" ELSE "exception"
  ELSE IF "TA_ASSERT_ERROR" \in defs
       THEN IF a \/ "NDEBUG" \in defs THEN "pass" ELSE "abort"
       ELSE "pass"

(***************************************************************************)
(* Bounds and input sets of the model                                       *)
(***************************************************************************)
\* number of algebra calls in one run
MaxOps == 1
\* number of processes of the world
NProcs == 2

\* the tiled ranges handed to the constructors: one mode with tiles of 2 and
\* 3 elements; two modes, tiles of 1 and 4 elements by a tile of 1 element;
\* and the transpose of the latter
TRanges == { << <<2, 3>> >>, << <<1, 4>>, <<1>> >>, << <<1>>, <<1, 4>> >> }

\* per-tile Frobenius norms handed to the constructors
RawNorms == {0, 4}

\* the values SparseShape<float>::threshold() takes: 1 and 2
Thresholds == {<<1, 1>>, <<2, 1>>}

\* scaling factors handed to the operations: -2 and 1/2
Factors == {<<-2, 1>>, <<1, 2>>}
\* factors of add, subt and mult: the default 1, and -2
BinaryFactors == {One, <<-2, 1>>}
GemmFactors == {<<-2, 1>>}

Perms(n) == {p \in [1..n -> 1..n] : IsPerm(p, n)}

\* candidate block bounds for a shape of the model (at most 2 tiles per mode)
Bounds(n) == [1..n -> 0..2]

Slots == {"left", "right", "result"}
Fixtures == {"left", "right"}
Procs == 1..NProcs

(***************************************************************************)
(* State                                                                    *)
(***************************************************************************)
VARIABLES
  threshold,   \* SparseShape<float>::threshold(), process-wide
  defined,     \* the macros defined in the build of the library
  shapes,      \* the shape objects left, right and result
  tile_norms,  \* the norm tensors the fixtures were constructed from
  last,        \* the last call: operation, operands as passed, outcome
  nops,        \* number of algebra calls made
  world,       \* the processes inside the distributed constructor
  fuse         \* the call of fuse_vector_of_arrays and its tasks

vars == <<threshold, defined, shapes, tile_norms, last, nops, world, fuse>>

NoCall == [op |-> "none", slots |-> <<>>, a |-> EmptyShape, b |-> EmptyShape,
           arg |-> <<>>, thr |-> Zero, status |-> "none"]

Call(op, slots, arg, status) ==
  [op |-> op, slots |-> slots,
   a |-> shapes[slots[1]],
   b |-> IF Len(slots) > 1 THEN shapes[slots[2]] ELSE EmptyShape,
   arg |-> arg, thr |-> threshold, status |-> status]

NoWorld == <<>>

\* no call of fuse_vector_of_arrays is in progress
NoFuse == <<>>

\* the state after construction of the fixture objects, in a build with
\* the given error checking
InitShapes ==
  /\ threshold \in Thresholds
  /\ shapes = [s \in Slots |-> EmptyShape]
  /\ tile_norms = [s \in Fixtures |-> <<>>]
  /\ last = NoCall
  /\ nops = 0
  /\ fuse = NoFuse

\* the test suite is built with TA_EXCEPTION_ERROR
Init ==
  /\ InitShapes
  /\ defined = {"TA_EXCEPTION_ERROR"}
  /\ world = NoWorld

\* SparseShape<float> x(tile_norms, tr)
Construct(slot, tr, raw) ==
  /\ shapes[slot].empty
  /\ shapes' = [shapes EXCEPT ![slot] = SparseShapeCtor(raw, tr, threshold)]
  /\ tile_norms' = [tile_norms EXCEPT ![slot] = raw]
  /\ last' = [Call("ctor", <<slot>>, tr, "returned") EXCEPT !.a = EmptyShape]
  /\ UNCHANGED <<threshold, defined, nops, world, fuse>>

\* the fixtures of a test are over one tiled range, or over a tiled range
\* and its transpose when they are contracted with each other
Conformal(tr, other) ==
  \/ other.empty
  \/ other.tr = tr
  \/ Rank(tr) = 2 /\ other.tr = <<tr[2], tr[1]>>

ConstructAny ==
  \E slot \in Fixtures, tr \in TRanges :
    /\ shapes[slot].empty
    /\ \A other \in Fixtures \ {slot} : Conformal(tr, shapes[other])
    /\ \E raw \in [TileOrdinals(tr) -> RawNorms] : Construct(slot, tr, raw)

\* a threshold setter that screens the existing shapes with the new value
SetThreshold_rescreen(t) ==
  /\ t # threshold
  /\ nops = 0
  /\ threshold' = t
  /\ shapes' = [s \in Slots |->
                  IF shapes[s].empty THEN shapes[s]
                  ELSE MakeShape(shapes[s].tr,
                         [i \in DOMAIN shapes[s].norms |->
                            ApplyThreshold(shapes[s].norms[i], t)])]
  /\ UNCHANGED <<defined, tile_norms, last, nops, world, fuse>>

\* SparseShape<float>::threshold(t): the global threshold is set before the
\* calls of a run, between or after the constructions of its fixtures
SetThreshold(t) ==
  /\ t # threshold
  /\ nops = 0
  /\ threshold' = t
  /\ UNCHANGED <<defined, shapes, tile_norms, last, nops, world, fuse>>

Initialized(a) == ~shapes[a].empty

SameGrid(a, b) == shapes[a].tr = shapes[b].tr

\* a call may be made on initialized operands
CanCall(operands) ==
  /\ nops < MaxOps
  /\ \A i \in 1..Len(operands) : Initialized(operands[i])

\* a call that also writes its result into its first operand
Return_inplace(op, slots, arg, value) ==
  /\ shapes' = [shapes EXCEPT !["result"] = value, ![slots[1]] = value]
  /\ last' = Call(op, slots, arg, "returned")
  /\ nops' = nops + 1
  /\ UNCHANGED <<threshold, defined, tile_norms, world, fuse>>

\* result = <value>, after a call that returned
Return(op, slots, arg, value) ==
  /\ shapes' = [shapes EXCEPT !["result"] = value]
  /\ last' = Call(op, slots, arg, "returned")
  /\ nops' = nops + 1
  /\ UNCHANGED <<threshold, defined, tile_norms, world, fuse>>

\* SparseShape<float> y(x)
CopyCall(a) ==
  /\ CanCall(<<a>>)
  /\ Return("copy", <<a>>, <<>>, shapes[a])

PermCall(a) ==
  /\ CanCall(<<a>>)
  /\ \E p \in Perms(Rank(shapes[a].tr)) :
       Return("perm", <<a>>, p, perm(shapes[a], p))

ScaleCall(a, f) ==
  /\ CanCall(<<a>>)
  /\ Return("scale", <<a>>, f, scale(shapes[a], f, threshold))

AddCall(a, b, f) ==
  /\ CanCall(<<a, b>>) /\ SameGrid(a, b)
  /\ Return("add", <<a, b>>, f, add(shapes[a], shapes[b], f, threshold))

SubtCall(a, b, f) ==
  /\ CanCall(<<a, b>>) /\ SameGrid(a, b)
  /\ Return("subt", <<a, b>>, f, subt(shapes[a], shapes[b], f, threshold))

MultCall(a, b, f) ==
  /\ CanCall(<<a, b>>) /\ SameGrid(a, b)
  /\ Return("mult", <<a, b>>, f, mult(shapes[a], shapes[b], f, threshold))

MaskCall(a, b) ==
  /\ CanCall(<<a, b>>) /\ SameGrid(a, b)
  /\ Return("mask", <<a, b>>, <<>>, mask(shapes[a], shapes[b], threshold))

TransformCall(a, op) ==
  /\ CanCall(<<a>>)
  /\ Return("transform", <<a>>, op, transform(shapes[a], op, threshold))

GemmCall(a, b, f) ==
  /\ CanCall(<<a, b>>)
  /\ Rank(shapes[a].tr) = 2 /\ Rank(shapes[b].tr) = 2
  /\ shapes[a].tr[2] = shapes[b].tr[1]
  /\ Return("gemm", <<a, b>>, f, gemm(shapes[a], shapes[b], f, threshold))

BlockCall(a) ==
  /\ CanCall(<<a>>)
  /\ \E lower \in Bounds(Rank(shapes[a].tr)), upper \in Bounds(Rank(shapes[a].tr)) :
       /\ ValidBlock(shapes[a], lower, upper)
       /\ Return("block", <<a>>, <<lower, upper>>, block(shapes[a], lower, upper))

Next ==
  \/ ConstructAny
  \/ \E t \in Thresholds : SetThreshold(t)
  \/ \E a \in Slots : CopyCall(a)
  \/ \E a \in Slots : PermCall(a)
  \/ \E a \in Slots, f \in Factors : ScaleCall(a, f)
  \/ \E a \in Slots, b \in Slots, f \in BinaryFactors : AddCall(a, b, f)
  \/ \E a \in Slots, b \in Slots, f \in BinaryFactors : SubtCall(a, b, f)
  \/ \E a \in Slots, b \in Slots, f \in BinaryFactors : MultCall(a, b, f)
  \/ \E a \in Slots, b \in Slots : MaskCall(a, b)
  \/ \E a \in Slots, op \in TransformOps : TransformCall(a, op)
  \/ \E a \in Slots, b \in Slots, f \in GemmFactors : GemmCall(a, b, f)
  \/ \E a \in Slots : BlockCall(a)

Spec == Init /\ [][Next]_vars

(***************************************************************************)
(* The test cases of the overloads: each one constructs the fixture and     *)
(* assigns the result of one call to a default-constructed result           *)
(***************************************************************************)
\* a tiled range of three modes: tiles of 1 and 2 elements, by tiles of 1
\* and 3 elements, by a tile of 1 element
TRange3 == << <<1, 2>>, <<1, 3>>, <<1>> >>

TestTRanges == TRanges \cup {TRange3}

\* the factor of the block tests
BlockFactors == {One, <<3, 1>>}

\* the fixture is constructed before the call of the test case
ConstructFixture ==
  \E slot \in Fixtures, tr \in TestTRanges :
    /\ shapes["result"].empty
    /\ shapes[slot].empty
    /\ \A other \in Fixtures \ {slot} : Conformal(tr, shapes[other])
    /\ \E raw \in [TileOrdinals(tr) -> RawNorms] : Construct(slot, tr, raw)

\* SparseShape<float> result; result = <call on the fixture shapes>
TestCall(operands) ==
  /\ shapes["result"].empty
  /\ \A i \in 1..Len(operands) : Initialized(operands[i])

PermTest(a) ==
  /\ TestCall(<<a>>)
  /\ \E p \in Perms(Rank(shapes[a].tr)) :
       Return("perm", <<a>>, p, perm(shapes[a], p))

MaskTest(a, b) ==
  /\ TestCall(<<a, b>>) /\ SameGrid(a, b)
  /\ Return("mask", <<a, b>>, <<>>, mask(shapes[a], shapes[b], threshold))

ScalePermTest(a, f) ==
  /\ TestCall(<<a>>)
  /\ \E p \in Perms(Rank(shapes[a].tr)) :
       Return("scale_perm", <<a>>, <<f, p>>, scale_perm(shapes[a], f, p, threshold))

AddPermTest(a, b, f) ==
  /\ TestCall(<<a, b>>) /\ SameGrid(a, b)
  /\ \E p \in Perms(Rank(shapes[a].tr)) :
       Return("add_perm", <<a, b>>, <<f, p>>,
              add_perm(shapes[a], shapes[b], f, p, threshold))

SubtPermTest(a, b, f) ==
  /\ TestCall(<<a, b>>) /\ SameGrid(a, b)
  /\ \E p \in Perms(Rank(shapes[a].tr)) :
       Return("subt_perm", <<a, b>>, <<f, p>>,
              subt_perm(shapes[a], shapes[b], f, p, threshold))

MultPermTest(a, b, f) ==
  /\ TestCall(<<a, b>>) /\ SameGrid(a, b)
  /\ \E p \in Perms(Rank(shapes[a].tr)) :
       Return("mult_perm", <<a, b>>, <<f, p>>,
              mult_perm(shapes[a], shapes[b], f, p, threshold))

GemmPermTest(a, b, f) ==
  /\ TestCall(<<a, b>>)
  /\ Rank(shapes[a].tr) = 2 /\ Rank(shapes[b].tr) = 2
  /\ shapes[a].tr[2] = shapes[b].tr[1]
  /\ \E p \in Perms(2) :
       Return("gemm_perm", <<a, b>>, <<f, p>>,
              gemm_perm(shapes[a], shapes[b], f, p, threshold))

BlockScalePermTest(a, f) ==
  /\ TestCall(<<a>>)
  /\ \E lower \in Bounds(Rank(shapes[a].tr)), upper \in Bounds(Rank(shapes[a].tr)) :
       /\ ValidBlock(shapes[a], lower, upper)
       /\ \E p \in Perms(Rank(shapes[a].tr)) :
            Return("block_scale_perm", <<a>>, <<lower, upper, f, p>>,
                   block_scale_perm(shapes[a], lower, upper, f, p))

ScaleScaleTest(a, f1, f2) ==
  /\ TestCall(<<a>>)
  /\ Return("scale_scale", <<a>>, <<f1, f2>>,
            scale_scale(shapes[a], f1, f2, threshold))

PermPermInvTest(a) ==
  /\ TestCall(<<a>>)
  /\ \E p \in Perms(Rank(shapes[a].tr)) :
       Return("perm_perm_inv", <<a>>, p, perm_perm_inv(shapes[a], p))

\* result = sparse_shape.transform(op)
TransformTest(a, op) ==
  /\ TestCall(<<a>>)
  /\ Return("transform", <<a>>, op, transform(shapes[a], op, threshold))

NextOps ==
  \/ ConstructFixture
  \/ PermTest("left")
  \/ \E b \in Fixtures : MaskTest("left", b)
  \/ \E f \in Factors : ScalePermTest("left", f)
  \/ \E b \in Fixtures, f \in BinaryFactors : AddPermTest("left", b, f)
  \/ \E b \in Fixtures, f \in BinaryFactors : SubtPermTest("left", b, f)
  \/ \E b \in Fixtures, f \in BinaryFactors : MultPermTest("left", b, f)
  \/ \E b \in Fixtures, f \in GemmFactors : GemmPermTest("left", b, f)
  \/ \E f \in BlockFactors : BlockScalePermTest("left", f)
  \/ \E f1 \in Factors, f2 \in Factors : ScaleScaleTest("left", f1, f2)
  \/ PermPermInvTest("left")
  \/ \E op \in TransformOps : TransformTest("left", op)

SpecOps == Init /\ [][NextOps]_vars

(***************************************************************************)
(* Addition and subtraction of a constant.  The norm of a constant tile is  *)
(* a square root; the fixtures are over tiled ranges whose tiles have a     *)
(* square number of elements, so that every norm is a fraction.             *)
(***************************************************************************)
TRangeSquare3 == << <<1, 4>>, <<1, 4>>, <<1>> >>

SquareTRanges == { << <<1, 4>>, <<1>> >>, << <<1>>, <<1, 4>> >>, TRangeSquare3 }

\* the constants added: -2 and 2 differ in sign only
ConstValues == {<<-2, 1>>, <<2, 1>>, <<1, 2>>}

ConstructSquareFixture ==
  /\ shapes["result"].empty
  /\ shapes["left"].empty
  /\ \E tr \in SquareTRanges : \E raw \in [TileOrdinals(tr) -> RawNorms] :
       Construct("left", tr, raw)

\* result = sparse_shape.add(value, perm)
AddConstPermTest(a, value) ==
  /\ TestCall(<<a>>)
  /\ \E p \in Perms(Rank(shapes[a].tr)) :
       Return("add_const_perm", <<a>>, <<value, p>>,
              add_const_perm(shapes[a], value, p, threshold))

\* result = sparse_shape.subt(value, perm)
SubtConstPermTest(a, value) ==
  /\ TestCall(<<a>>)
  /\ \E p \in Perms(Rank(shapes[a].tr)) :
       Return("subt_const_perm", <<a>>, <<value, p>>,
              subt_const_perm(shapes[a], value, p, threshold))

NextConst ==
  \/ ConstructSquareFixture
  \/ \E value \in ConstValues : AddConstPermTest("left", value)
  \/ \E value \in ConstValues : SubtConstPermTest("left", value)

SpecConst == Init /\ [][NextConst]_vars

(***************************************************************************)
(* Calls made before and after a change of the global threshold             *)
(***************************************************************************)
NextThreshold ==
  \/ ConstructAny
  \/ \E t \in Thresholds : SetThreshold(t)
  \/ \E f \in Factors : ScalePermTest("left", f)
  \/ \E b \in Fixtures, f \in BinaryFactors : AddPermTest("left", b, f)

SpecThreshold == Init /\ [][NextThreshold]_vars

(***************************************************************************)
(* Calls on a default-constructed shape, in every build of the library      *)
(***************************************************************************)
\* the operations the default_constructor test calls on an empty shape:
\* x[0], perm, scale, add, add of a constant, subt, subt of a constant,
\* mult and gemm
EmptyShapeOps ==
  {"index", "perm", "scale", "add", "add_const", "subt", "subt_const",
   "mult", "gemm"}

\* what a call that runs past a disabled check on an object without a norm
\* tensor may leave in the result: nothing, or a shape of arbitrary content
UndefinedShapes ==
  {EmptyShape} \cup {MakeShape(<< <<2, 3>> >>, [i \in 0..1 |-> n]) : n \in {Zero, One}}

\* the process runs until an assertion aborts it or it crashes
Running == last.status \notin {"abort", "crash"}

InitErr ==
  /\ InitShapes
  /\ defined \in SUBSET Macros
  /\ world = NoWorld

\* SparseShape<float> y(tile_norms, tr), the argument of the binary calls
ConstructArg ==
  /\ Running
  /\ \E tr \in TRanges : \E raw \in [TileOrdinals(tr) -> RawNorms] :
       Construct("right", tr, raw)

\* x.op(...) on a default-constructed x: the operation first checks
\* TA_ASSERT(! empty())
EmptyShapeCall(op, a) ==
  /\ Running
  /\ shapes[a].empty
  /\ LET check == TA_ASSERT(defined, ~empty(shapes[a]))
         slots == IF op \in {"add", "subt", "mult", "gemm"}
                  THEN <<a, "right">> ELSE <<a>>
     IN  IF check # "pass"
         THEN \* the exception propagates to the caller, or the process aborts
              /\ last' = Call(op, slots, <<>>, check)
              /\ UNCHANGED shapes
         ELSE \* no check was made: the operation reads a norm tensor that
              \* does not exist, which is undefined behaviour
              \/ /\ last' = Call(op, slots, <<>>, "crash")
                 /\ UNCHANGED shapes
              \/ \E junk \in UndefinedShapes :
                   /\ last' = Call(op, slots, <<>>, "returned")
                   /\ shapes' = [shapes EXCEPT !["result"] = junk]
  /\ UNCHANGED <<threshold, defined, tile_norms, nops, world, fuse>>

NextErr ==
  \/ ConstructArg
  \/ \E op \in EmptyShapeOps, a \in {"left", "result"} : EmptyShapeCall(op, a)

SpecErr == InitErr /\ [][NextErr]_vars

(***************************************************************************)
(* Blocks with arbitrary bounds, under every error-checking configuration   *)
(***************************************************************************)
\* SparseShape<float> sparse_shape(tile_norms, tr), the source of the blocks
ConstructSource ==
  /\ Running
  /\ shapes["left"].empty
  /\ \E tr \in TRanges : \E raw \in [TileOrdinals(tr) -> RawNorms] :
       Construct("left", tr, raw)

\* result = sparse_shape.block(lower, upper) with bounds of any kind: block
\* first checks its bounds with TA_ASSERT
BoundsCheckedBlock(a) ==
  /\ Running
  /\ Initialized(a)
  /\ shapes["result"].empty /\ last.op # "block"
  /\ \E lower \in Bounds(Rank(shapes[a].tr)), upper \in Bounds(Rank(shapes[a].tr)) :
       LET valid == ValidBlock(shapes[a], lower, upper)
           check == TA_ASSERT(defined, valid)
       IN  IF check # "pass"
           THEN \* the exception propagates to the caller, or the process aborts
                /\ last' = Call("block", <<a>>, <<lower, upper>>, check)
                /\ UNCHANGED shapes
           ELSE IF valid
           THEN /\ last' = Call("block", <<a>>, <<lower, upper>>, "returned")
                /\ shapes' = [shapes EXCEPT !["result"] = block(shapes[a], lower, upper)]
           ELSE \* no check was made: the copy reads outside the norm tensor
                \* or builds a range of negative extent, undefined behaviour
                \/ /\ last' = Call("block", <<a>>, <<lower, upper>>, "crash")
                   /\ UNCHANGED shapes
                \/ \E junk \in UndefinedShapes :
                     /\ last' = Call("block", <<a>>, <<lower, upper>>, "returned")
                     /\ shapes' = [shapes EXCEPT !["result"] = junk]
  /\ UNCHANGED <<threshold, defined, tile_norms, nops, world, fuse>>

NextBlock ==
  \/ ConstructSource
  \/ BoundsCheckedBlock("left")

SpecBlock == InitErr /\ [][NextBlock]_vars

(***************************************************************************)
(* Erroneous calls of every kind, under every error-checking configuration  *)
(***************************************************************************)
\* the binary operations that require an argument over the tile grid of the
\* object, and the contraction, which requires rank-2 operands whose
\* contracted modes have the same tiling (GemmHelper(NoTrans, NoTrans, 2, 2, 2))
GridOps == {"add", "subt", "mult", "gemm"}

Compatible(op, s, other) ==
  IF op = "gemm"
  THEN /\ Rank(s.tr) = 2 /\ Rank(other.tr) = 2
       /\ s.tr[2] = other.tr[1]
  ELSE s.tr = other.tr

\* x.op(y) with an argument whose tile grid or rank does not fit: the
\* operation first checks TA_ASSERT of the compatibility of the operands
MismatchedCall(op, a, b) ==
  /\ Running
  /\ Initialized(a) /\ Initialized(b)
  /\ shapes["result"].empty
  /\ ~Compatible(op, shapes[a], shapes[b])
  /\ LET check == TA_ASSERT(defined, Compatible(op, shapes[a], shapes[b]))
     IN  IF check # "pass"
         THEN \* the exception propagates to the caller, or the process aborts
              /\ last' = Call(op, <<a, b>>, <<>>, check)
              /\ UNCHANGED shapes
         ELSE \* no check was made: the operation reads the argument's norms
              \* at the ordinals of the object, undefined behaviour
              \/ /\ last' = Call(op, <<a, b>>, <<>>, "crash")
                 /\ UNCHANGED shapes
              \/ \E junk \in UndefinedShapes :
                   /\ last' = Call(op, <<a, b>>, <<>>, "returned")
                   /\ shapes' = [shapes EXCEPT !["result"] = junk]
  /\ UNCHANGED <<threshold, defined, tile_norms, nops, world, fuse>>

\* a run builds its objects and then makes one call
NoCallYet == last.op \in {"none", "ctor"}

NextMisuse ==
  \/ NoCallYet /\ ConstructSource
  \/ NoCallYet /\ ConstructArg
  \/ NoCallYet /\ \E op \in EmptyShapeOps, a \in {"left", "result"} : EmptyShapeCall(op, a)
  \/ NoCallYet /\ shapes["right"].empty /\ BoundsCheckedBlock("left")
  \/ NoCallYet /\ \E op \in GridOps : MismatchedCall(op, "left", "right")

SpecMisuse == InitErr /\ [][NextMisuse]_vars

(***************************************************************************)
(* SparseShape(world, tile_norms, trange): the collective constructor       *)
(***************************************************************************)
\* a process that hands over the full norm tensor, without zeroing the
\* tiles it does not own
LocalNorms_nofill(full, pmap, p) == full

\* the norm tensor a process hands to the constructor: the norm of the tiles
\* it owns and zero for the others
LocalNorms(full, pmap, p) ==
  [i \in DOMAIN full |-> IF pmap[i] = p THEN full[i] ELSE 0]

\* entrywise sum of the tensors contributed to the reduction
RECURSIVE SumOver(_, _, _)
SumOver(sent, ps, i) ==
  IF ps = {} THEN 0
  ELSE LET p == CHOOSE q \in ps : TRUE
       IN  (IF sent[p] = <<>> THEN 0 ELSE sent[p][i]) + SumOver(sent, ps \ {p}, i)

Reduced(sent, tr) == [i \in TileOrdinals(tr) |-> SumOver(sent, Procs, i)]

\* a reduction that completes on a process as soon as that process entered
AllContributed_early(pc) == TRUE

\* a reduction that waits for one contribution more than there are processes
AllContributed_offbyone(pc) ==
  Cardinality({q \in Procs : pc[q] # "idle"}) > NProcs

\* world.gop.sum() completes on a process once every process has entered it
AllContributed(pc) == \A q \in Procs : pc[q] # "idle"

Worlds ==
  {[tr |-> tr, full |-> full, pmap |-> pmap,
    pc |-> [p \in Procs |-> "idle"],
    sent |-> [p \in Procs |-> <<>>],
    x |-> [p \in Procs |-> EmptyShape]] :
     tr \in TRanges, full \in UNION {[TileOrdinals(t) -> RawNorms] : t \in TRanges},
     pmap \in UNION {[TileOrdinals(t) -> Procs] : t \in TRanges}}

InitComm ==
  /\ InitShapes
  /\ defined = {"TA_EXCEPTION_ERROR"}
  /\ world \in {w \in Worlds : DOMAIN w.full = TileOrdinals(w.tr)
                               /\ DOMAIN w.pmap = TileOrdinals(w.tr)}

\* process p calls the constructor and contributes its tensor to the sum
CommCall(p) ==
  /\ world.pc[p] = "idle"
  /\ world' = [world EXCEPT
       !.pc[p] = "reducing",
       !.sent[p] = LocalNorms(world.full, world.pmap, p)]
  /\ UNCHANGED <<threshold, defined, shapes, tile_norms, last, nops, fuse>>

\* the reduction completes on process p, which then scales and thresholds
\* the summed norms locally and returns
CommReturn(p) ==
  /\ world.pc[p] = "reducing"
  /\ AllContributed(world.pc)
  /\ world' = [world EXCEPT
       !.pc[p] = "done",
       !.x[p] = SparseShapeCtor(Reduced(world.sent, world.tr), world.tr, threshold)]
  /\ UNCHANGED <<threshold, defined, shapes, tile_norms, last, nops, fuse>>

NextComm ==
  \/ \E p \in Procs : CommCall(p)
  \/ \E p \in Procs : CommReturn(p)

SpecComm == InitComm /\ [][NextComm]_vars

\* the runtime schedules a process whose reduction can complete
SpecCommFair == SpecComm /\ \A p \in Procs : WF_vars(CommReturn(p))

(***************************************************************************)
(* The constructors that take a list of (multi-index, norm) pairs           *)
(***************************************************************************)
\* SparseShape(world, tile_norms, trange) as every process obtains it: the
\* constructor of the sum of the zero-filled local tensors
CommCtor(full, pmap, tr, thr) ==
  SparseShapeCtor(Reduced([p \in Procs |-> LocalNorms(full, pmap, p)], tr), tr, thr)

\* SparseShape(world, sparse_tile_norms, trange): every process lists the
\* tiles of its zero-filled local tensor with a norm > 0
CommCtorSparse(full, pmap, tr, thr) ==
  SparseShapeCtor(
    Reduced([p \in Procs |->
               DenseTileNorms(SparseTileNorms(LocalNorms(full, pmap, p), tr), tr)], tr),
    tr, thr)

\* SparseShape<float> x(tile_norms, tr)
ConstructDense ==
  /\ shapes["result"].empty
  /\ shapes["left"].empty
  /\ \E tr \in TestTRanges : \E raw \in [TileOrdinals(tr) -> RawNorms] :
       Construct("left", tr, raw)

\* SparseShape<float> x_sp(sparse_tile_norms, tr), from the norms x was built of
ConstructSparse(a) ==
  /\ TestCall(<<a>>)
  /\ Return("ctor_sparse", <<a>>, <<>>,
            SparseShapeCtorSparse(SparseTileNorms(tile_norms[a], shapes[a].tr),
                                  shapes[a].tr, threshold))

\* SparseShape<float> x_sp(world, sparse_tile_norms, tr), the tiles owned as
\* the process map tells
ConstructCommSparse(a) ==
  /\ TestCall(<<a>>)
  /\ \E pmap \in [TileOrdinals(shapes[a].tr) -> Procs] :
       Return("comm_ctor_sparse", <<a>>, pmap,
              CommCtorSparse(tile_norms[a], pmap, shapes[a].tr, threshold))

NextSparseCtor ==
  \/ ConstructDense
  \/ ConstructSparse("left")
  \/ ConstructCommSparse("left")

SpecSparseCtor == Init /\ [][NextSparseCtor]_vars

(***************************************************************************)
(* fuse_vector_of_arrays and subshape_from_fused_array: a vector of arrays  *)
(* over one tiled range is fused into one array whose leading mode is the   *)
(* vector index, tiled by block_size.  The vector is 0-based in the code    *)
(* and 1-based here: arrays[vidx] of the code is arrays[vidx + 1].          *)
(***************************************************************************)
\* largest number of arrays in the vector
MaxArrays == 3
\* largest block_size passed
MaxBlockSize == 2
\* elements the vector of tile boundaries can hold before its allocation
\* fails; more than any vector of boundaries a returning call builds
MaxAlloc == MaxArrays + 2

\* the tiled ranges of the arrays fused
FuseTRanges == { << <<1, 2>> >>, << <<2>>, <<1>> >> }
\* the scaled norms stored in the shapes of the arrays fused
FuseNorms == {Zero, <<3, 1>>, <<4, 1>>}

\* tiles that all start at the first boundary
TiledRange1_from_first(boundaries) ==
  [k \in 1..(Len(boundaries) - 1) |-> boundaries[k + 1] - boundaries[1]]

\* TiledRange1(first, last): the tiles between consecutive boundaries
TiledRange1(boundaries) ==
  [k \in 1..(Len(boundaries) - 1) |-> boundaries[k + 1] - boundaries[k]]

RECURSIVE TileFirst(_, _)
\* TiledRange1::tile(k).first for a range that starts at 0
TileFirst(tr1, k) == IF k = 0 THEN 0 ELSE TileFirst(tr1, k - 1) + tr1[k]

\* TiledRange1::element_to_tile(i)
element_to_tile(tr1, i) ==
  CHOOSE k \in 0..(Len(tr1) - 1) :
    TileFirst(tr1, k) <= i /\ i < TileFirst(tr1, k) + tr1[k + 1]

\* the squared unscaled norm of a fused tile: the sum over the arrays
\* vidx .. vidx + vblk_size - 1 of (scaled norm * tile volume)^2
UnscaledFusedTileNorm2(arrays, vidx, vblk_size, tile_ord) ==
  RatSum([v \in 1..vblk_size |->
            LET unscaled_tile_norm ==
                  RatMul(arrays[vidx + v].norms[tile_ord],
                         FromInt(TileVolume(arrays[1].tr, tile_ord)))
            IN  RatMul(unscaled_tile_norm, unscaled_tile_norm)])

\* the arrays that contribute to the fused tile that starts at array vidx:
\* the last fused tile may have fewer than block_size
VBlkSize(narrays, vidx, block_size) ==
  IF narrays - vidx >= block_size THEN block_size ELSE narrays - vidx

\* the scaled norm fuse_vector_of_shapes computes for a fused tile
FusedTileNorm(arrays, block_size, fused_tile_ord) ==
  LET ntiles_per_array == Volume(Extents(arrays[1].tr))
      vidx      == (fused_tile_ord \div ntiles_per_array) * block_size
      tile_ord  == fused_tile_ord % ntiles_per_array
      vblk_size == VBlkSize(Len(arrays), vidx, block_size)
      fused_tile_volume == TileVolume(arrays[1].tr, tile_ord) * vblk_size
  IN  RatDiv(RatSqrt(UnscaledFusedTileNorm2(arrays, vidx, vblk_size, tile_ord)),
             FromInt(fused_tile_volume))

\* fuse_vector_of_shapes(arrays, fused_trange) for sparse arrays: block_size
\* is the extent of the first tile of mode 0 of the fused tiled range
fuse_vector_of_shapes(arrays, fused_trange, thr) ==
  LET block_size == fused_trange[1][1]
  IN  SparseShapeCtorNoScale(
        [fused_tile_ord \in TileOrdinals(fused_trange) |->
           FusedTileNorm(arrays, block_size, fused_tile_ord)],
        fused_trange, thr)

\* subshape_from_fused_array(fused_array, i, split_trange) for a sparse
\* array: the norms of the fused tiles that hold element i of mode 0, each
\* multiplied by the extent of that tile of mode 0
subshape_from_fused_array(fused_shape, i, split_trange, thr) ==
  LET split_array_ntiles  == Volume(Extents(split_trange))
      tile_idx_of_i       == element_to_tile(fused_shape.tr[1], i)
      offset              == tile_idx_of_i * split_array_ntiles
      extent_of_tile_of_i == fused_shape.tr[1][tile_idx_of_i + 1]
  IN  SparseShapeCtorNoScale(
        [t \in TileOrdinals(split_trange) |->
           RatMul(fused_shape.norms[offset + t], FromInt(extent_of_tile_of_i))],
        split_trange, thr)

\* the futures collected for a fused tile by a loop that always takes
\* block_size tiles
InputTiles_whole_block(block_size, mode0_extent, tile_idx_mode0, tile_ord_array) ==
  [v \in 1..block_size |-> <<tile_idx_mode0 * block_size + v - 1, tile_ord_array>>]

\* the futures collected for a fused tile: arrays[vidx].find(tile_ord_array)
\* for v = 0, 1, .. while v != block_size and vidx < mode0_extent
InputTiles(block_size, mode0_extent, tile_idx_mode0, tile_ord_array) ==
  LET first == tile_idx_mode0 * block_size
      count == Cardinality({v \in 0..(block_size - 1) : first + v < mode0_extent})
  IN  [v \in 1..count |-> <<first + v - 1, tile_ord_array>>]

\* make_tile(range, tiles): both assertions, then the copy
make_tile(extent0, tiles, ready) ==
  IF extent0 # Len(tiles) THEN "assert_extent"
  ELSE IF \E k \in 1..Len(tiles) : tiles[k] \notin ready THEN "assert_probe"
  ELSE "done"

\* the tasks fuse_vector_of_arrays adds to the task queue: one per non-zero
\* fused tile (the process owns every tile: a world of one process)
FuseTasks(arrays, block_size, fused_shape, thr) ==
  LET ntiles_per_array == Volume(Extents(arrays[1].tr))
      nonzero == {o \in TileOrdinals(fused_shape.tr) : ~is_zero(fused_shape, o, thr)}
  IN  [fused_tile_ord \in nonzero |->
        [extent0 |-> fused_shape.tr[1][(fused_tile_ord \div ntiles_per_array) + 1],
         tiles   |-> InputTiles(block_size, Len(arrays),
                                fused_tile_ord \div ntiles_per_array,
                                fused_tile_ord % ntiles_per_array),
         status  |-> "queued"]]

\* sqrt is computed exactly on the inputs chosen: the squared norm of every
\* fused tile is the square of a rational
IsSquare(n) == \E r \in 0..n : r * r = n

ExactlyFusable(arrays, block_size) ==
  \A vidx \in {k * block_size : k \in 0..(Len(arrays) - 1)} :
    vidx < Len(arrays) =>
      \A tile_ord \in TileOrdinals(arrays[1].tr) :
        LET n2 == UnscaledFusedTileNorm2(arrays, vidx,
                    VBlkSize(Len(arrays), vidx, block_size), tile_ord)
        IN  IsSquare(n2[1]) /\ IsSquare(n2[2])

\* the norms of a sparse array fused: no two tiles are non-zero
SparseNorms(tr) ==
  {f \in [TileOrdinals(tr) -> FuseNorms] :
     \A i, j \in TileOrdinals(tr) : (f[i] # Zero /\ f[j] # Zero) => i = j}

\* the vectors of arrays fused: every array over the same tiled range, its
\* shape as its constructor left it
ArrayVectors(thr) ==
  UNION {[1..n -> {SparseShapeCtorNoScale(f, tr, thr) : f \in SparseNorms(tr)}] :
         n \in 1..MaxArrays, tr \in FuseTRanges}

\* fuse_vector_of_arrays(arrays, block_size) is called: the first statements
\* of fuse_vector_of_tranges have run
InitFuse ==
  /\ threshold \in Thresholds
  /\ defined = {"TA_EXCEPTION_ERROR"}
  /\ shapes = [s \in Slots |-> EmptyShape]
  /\ tile_norms = [s \in Fixtures |-> <<>>]
  /\ last = NoCall
  /\ nops = 0
  /\ world = NoWorld
  /\ \E arrays \in ArrayVectors(threshold), block_size \in 0..MaxBlockSize :
       /\ IF block_size = 0 THEN TRUE
          ELSE ExactlyFusable(arrays, IF block_size < Len(arrays)
                                       THEN block_size ELSE Len(arrays))
       /\ fuse = [pc |-> "tranges", arrays |-> arrays, block_size |-> block_size,
                  i |-> block_size, new_trange1_v |-> <<0>>,
                  fused_trange |-> <<>>, fused_shape |-> EmptyShape,
                  tasks |-> <<>>, ready |-> {}, split |-> <<>>]

\* one iteration of for (i = block_size; i < range_size; i += block_size):
\* new_trange1_v.push_back(i), which throws std::bad_alloc when the vector
\* cannot grow
FuseTRangesLoop ==
  /\ fuse.pc = "tranges"
  /\ fuse.i < Len(fuse.arrays)
  /\ fuse' = IF Len(fuse.new_trange1_v) < MaxAlloc
             THEN [fuse EXCEPT !.new_trange1_v = Append(@, fuse.i),
                               !.i = @ + fuse.block_size]
             ELSE [fuse EXCEPT !.pc = "bad_alloc"]
  /\ UNCHANGED <<threshold, defined, shapes, tile_norms, last, nops, world>>

\* the loop is left: new_trange1_v.push_back(range_size), and the new
\* TiledRange1 is inserted before the modes of the arrays' tiled range
FuseTRangesReturn ==
  /\ fuse.pc = "tranges"
  /\ ~(fuse.i < Len(fuse.arrays))
  /\ fuse' = [fuse EXCEPT
       !.pc = "shapes",
       !.new_trange1_v = Append(@, Len(fuse.arrays)),
       !.fused_trange = <<TiledRange1(Append(fuse.new_trange1_v, Len(fuse.arrays)))>>
                          \o fuse.arrays[1].tr]
  /\ UNCHANGED <<threshold, defined, shapes, tile_norms, last, nops, world>>

\* auto fused_shape = detail::fuse_vector_of_shapes(arrays, fused_trange)
FuseShapes ==
  /\ fuse.pc = "shapes"
  /\ fuse' = [fuse EXCEPT
       !.pc = "tiles",
       !.fused_shape = fuse_vector_of_shapes(fuse.arrays, fuse.fused_trange, threshold)]
  /\ UNCHANGED <<threshold, defined, shapes, tile_norms, last, nops, world>>

\* the loop over the tiles of fused_array: the futures of the input tiles
\* are collected and a make_tile task is added for every non-zero tile;
\* fuse_vector_of_arrays returns
FuseTiles ==
  /\ fuse.pc = "tiles"
  /\ fuse' = [fuse EXCEPT
       !.pc = "returned",
       !.tasks = FuseTasks(fuse.arrays, fuse.block_size, fuse.fused_shape, threshold)]
  /\ UNCHANGED <<threshold, defined, shapes, tile_norms, last, nops, world>>

\* a tile of a source array that a task waits for is set: its future
\* becomes ready.  A tile that is zero in the shape of its array holds no
\* data and is never set.
SetTile(vidx, tile_ord) ==
  /\ \E o \in DOMAIN fuse.tasks : \E k \in 1..Len(fuse.tasks[o].tiles) :
       fuse.tasks[o].tiles[k] = <<vidx, tile_ord>>
  /\ <<vidx, tile_ord>> \notin fuse.ready
  /\ vidx < Len(fuse.arrays)
  /\ ~is_zero(fuse.arrays[vidx + 1], tile_ord, threshold)
  /\ fuse' = [fuse EXCEPT !.ready = @ \cup {<<vidx, tile_ord>>}]
  /\ UNCHANGED <<threshold, defined, shapes, tile_norms, last, nops, world>>

\* world.taskq runs a task once all the futures among its arguments are
\* ready: make_tile(range, tiles)
MakeTile(fused_tile_ord) ==
  /\ fused_tile_ord \in DOMAIN fuse.tasks
  /\ fuse.tasks[fused_tile_ord].status = "queued"
  /\ \A k \in 1..Len(fuse.tasks[fused_tile_ord].tiles) :
       fuse.tasks[fused_tile_ord].tiles[k] \in fuse.ready
  /\ fuse' = [fuse EXCEPT !.tasks[fused_tile_ord].status =
                make_tile(fuse.tasks[fused_tile_ord].extent0,
                          fuse.tasks[fused_tile_ord].tiles, fuse.ready)]
  /\ UNCHANGED <<threshold, defined, shapes, tile_norms, last, nops, world>>

\* subshape_from_fused_array(fused_array, i, arrays[i].trange())
Subshape(i) ==
  /\ fuse.pc = "returned"
  /\ fuse.split = <<>>
  /\ i < TileFirst(fuse.fused_trange[1], Len(fuse.fused_trange[1]))
  /\ fuse' = [fuse EXCEPT !.split =
       [i |-> i,
        shape |-> subshape_from_fused_array(fuse.fused_shape, i,
                                            fuse.arrays[1].tr, threshold)]]
  /\ UNCHANGED <<threshold, defined, shapes, tile_norms, last, nops, world>>

\* fuse_vector_of_tranges alone
NextTRanges ==
  \/ FuseTRangesLoop
  \/ FuseTRangesReturn

\* the statements of the function are executed one after the other
SpecTRangesFair == InitFuse /\ [][NextTRanges]_vars /\ WF_vars(NextTRanges)

\* the call and the tasks it leaves in the task queue
NextFuse ==
  \/ NextTRanges
  \/ FuseShapes
  \/ FuseTiles
  \/ \E vidx \in 0..(MaxArrays - 1), tile_ord \in TileOrdinals(fuse.arrays[1].tr) :
       SetTile(vidx, tile_ord)
  \/ \E fused_tile_ord \in DOMAIN fuse.tasks : MakeTile(fused_tile_ord)

SpecFuse == InitFuse /\ [][NextFuse]_vars

\* the shapes only: an array is fused and a subarray's shape is extracted
NextSplit ==
  \/ NextTRanges
  \/ FuseShapes
  \/ FuseTiles
  \/ \E i \in 0..(MaxArrays - 1) : Subshape(i)

SpecSplit == InitFuse /\ [][NextSplit]_vars

(***************************************************************************)
(* Properties                                                               *)
(***************************************************************************)
\* every entry is a hard zero or at least thr
Snapped(s, thr) ==
  \A i \in DOMAIN s.norms : s.norms[i] = Zero \/ ~RatLess(s.norms[i], thr)

\* applying the threshold again
re_threshold(s, thr) == SparseShapeCtorNoScale(s.norms, s.tr, thr)

\* the shape the last call produced
Produced == IF last.op = "ctor" THEN shapes[last.slots[1]] ELSE shapes["result"]

ProducerOps ==
  {"ctor", "perm", "scale", "add", "subt", "mult", "mask", "transform", "gemm", "block"}
ThresholdingOps == {"ctor", "scale", "add", "subt", "mult", "transform", "gemm"}
CopyingOps == {"perm", "mask", "block"}

\* C1 as stated: after a constructor or an algebra operation (perm, scale,
\* add, subt, mult, mask, transform, gemm, block) returns, every entry of the
\* shape it produced is 0 or at least the threshold in force, and applying
\* the threshold again returns the same shape.
C1_AllResultsSnapped ==
  (last.op \in ProducerOps /\ last.status = "returned") =>
    /\ Snapped(Produced, last.thr)
    /\ re_threshold(Produced, last.thr) = Produced

\* C1 amended: the constructor, scale, add, subt, mult, transform and gemm
\* produce shapes whose entries are 0 or at least the threshold in force at
\* the call; perm, mask and block copy the entries of their first operand,
\* so their result has the property when that operand has it (which it need
\* not after the threshold was raised).  Applying the threshold again to
\* such a shape returns it unchanged.
C1_ThresholdedResultsSnapped ==
  /\ (last.op \in ThresholdingOps /\ last.status = "returned") =>
       /\ Snapped(Produced, last.thr)
       /\ re_threshold(Produced, last.thr) = Produced
  /\ (last.op \in CopyingOps /\ last.status = "returned"
        /\ Snapped(last.a, last.thr)) =>
       /\ Snapped(Produced, last.thr)
       /\ re_threshold(Produced, last.thr) = Produced

\* scale has snapped a non-zero entry of its operand to zero and kept another
C1_Witness ==
  /\ last.op = "scale" /\ last.status = "returned"
  /\ \E i \in DOMAIN last.a.norms :
       last.a.norms[i] # Zero /\ shapes["result"].norms[i] = Zero
  /\ \E j \in DOMAIN last.a.norms : shapes["result"].norms[j] # Zero

\* the norms the sum of two tiles of norms a and b can have
TrueSumNorms(a, b) == {t \in 0..(a + b) : Abs(a - b) <= t}

\* add(left, right) of two shapes constructed from tiles
AddOfFixtures ==
  /\ last.op = "add" /\ last.status = "returned" /\ last.arg = One
  /\ \A k \in 1..2 : last.slots[k] \in Fixtures

\* C2 as stated: for shapes A and B built from tiles over the same grid and
\* every tile i, the norm of the sum of tile i of A and tile i of B is at
\* most add(A, B)[i] * volume(i).
C2_AddNeverUnderEstimates ==
  AddOfFixtures =>
    \A i \in DOMAIN shapes["result"].norms :
      \A t \in TrueSumNorms(tile_norms[last.slots[1]][i], tile_norms[last.slots[2]][i]) :
        RatLeq(FromInt(t), tile_norms_of(shapes["result"])[i])

\* thresholding changed neither the norm of tile i in the operands nor their sum
NothingDropped(i) ==
  /\ tile_norms_of(last.a)[i] = FromInt(tile_norms[last.slots[1]][i])
  /\ tile_norms_of(last.b)[i] = FromInt(tile_norms[last.slots[2]][i])
  /\ ~RatLess(RatAdd(last.a.norms[i], last.b.norms[i]), last.thr)

\* C2 amended: the bound holds for every tile whose scaled norm was not
\* below the threshold, hence not replaced by 0, in A, in B and in their sum.
C2_AddBoundsKeptTiles ==
  AddOfFixtures =>
    \A i \in DOMAIN shapes["result"].norms :
      NothingDropped(i) =>
        \A t \in TrueSumNorms(tile_norms[last.slots[1]][i], tile_norms[last.slots[2]][i]) :
          RatLeq(FromInt(t), tile_norms_of(shapes["result"])[i])

\* two tiles of norm 4 each were added and the bound is 8
C2_Witness ==
  /\ AddOfFixtures
  /\ \E i \in DOMAIN shapes["result"].norms :
       /\ NothingDropped(i)
       /\ tile_norms[last.slots[1]][i] = 4 /\ tile_norms[last.slots[2]][i] = 4
       /\ tile_norms_of(shapes["result"])[i] = FromInt(8)

Checking ==
  \/ "TA_EXCEPTION_ERROR" \in defined
  \/ ("TA_ASSERT_ERROR" \in defined /\ "NDEBUG" \notin defined)

EmptyShapeQueries ==
  \A s \in Slots : shapes[s].empty =>
    /\ empty(shapes[s])
    /\ \A tr \in TRanges : ~validate(shapes[s], Extents(tr))

\* C5 as stated: on a default-constructed shape empty() is true and
\* validate(range) is false, and every other operation (element access,
\* perm, scale, add, subt, mult, gemm) fails with an error instead of
\* returning a shape.
C5_EmptyShapeCallFails ==
  /\ EmptyShapeQueries
  /\ last.op \in EmptyShapeOps => last.status \in {"exception", "abort"}

\* C5 amended: on a default-constructed shape empty() is true and
\* validate(range) is false; every other operation fails instead of
\* returning a shape in a build that checks assertions: it throws
\* TiledArray::Exception with TA_EXCEPTION_ERROR and aborts with
\* TA_ASSERT_ERROR unless NDEBUG is defined.  In the other builds the call
\* is not checked.
C5_EmptyShapeCallFailsWhenChecked ==
  /\ EmptyShapeQueries
  /\ (last.op \in EmptyShapeOps /\ Checking) =>
       /\ last.status \in {"exception", "abort"}
       /\ "TA_EXCEPTION_ERROR" \in defined => last.status = "exception"
       /\ shapes["result"].empty

\* x.add(y) on a default-constructed x threw, y being initialized
C5_Witness ==
  /\ last.op = "add" /\ last.status = "exception"
  /\ shapes[last.slots[1]].empty /\ ~shapes["right"].empty

AlgebraOps ==
  {"perm", "scale", "add", "subt", "mult", "mask", "transform", "gemm", "block"}

\* what the last call, a constructor, a copy or a transform, left behind
LifecycleState ==
  /\ (last.op = "ctor" /\ last.status = "returned") =>
       /\ ~empty(Produced) /\ ~is_dense(Produced)
       /\ validate(Produced, Extents(last.arg))
  /\ (last.op = "copy" /\ last.status = "returned") =>
       /\ ~empty(last.a) /\ ~empty(Produced) /\ Produced = last.a
  /\ (last.op \in AlgebraOps /\ last.status = "returned") =>
       /\ ~empty(last.a)
       /\ ~empty(Produced) /\ ~is_dense(Produced)
       /\ validate(Produced, Extents(Produced.tr))
       /\ last.slots[1] # "result" => ~empty(shapes[last.slots[1]])

Done == {p \in Procs : world.pc[p] = "done"}

\* C7: for any assignment of the tiles to processes, each process
\* supplying the norm of the tiles it owns and 0 for the others, the shape
\* the collective constructor builds equals on every process and for every
\* tile the shape the plain constructor builds from the full norms: same
\* scaled norms, same is_zero, same sparsity.
C7_CollectiveEqualsPlainConstructor ==
  \A p \in Done :
    LET x   == world.x[p]
        ref == SparseShapeCtor(world.full, world.tr, threshold)
    IN  /\ ~empty(x) /\ x.tr = ref.tr
        /\ \A i \in TileOrdinals(world.tr) :
             /\ x.norms[i] = ref.norms[i]
             /\ is_zero(x, i, threshold) <=> is_zero(ref, i, threshold)
        /\ sparsity(x, threshold) = sparsity(ref, threshold)

\* every process returned, the two tiles being owned by different processes
\* and one of them non-zero
C7_Witness ==
  /\ Done = Procs
  /\ world.pmap[0] # world.pmap[1]
  /\ \E i \in TileOrdinals(world.tr) : world.x[1].norms[i] # Zero /\ world.pmap[i] # 1

\* C8: no call returns before every process has contributed its norms, and
\* a process that returns holds the entrywise sum of all contributions
\* (scaled and thresholded), the same on every process that returned.
C8_BlockingCollective ==
  \A p \in Done :
    /\ \A q \in Procs : world.pc[q] # "idle" /\ world.sent[q] # <<>>
    /\ world.x[p] = SparseShapeCtor(
         [i \in TileOrdinals(world.tr) |-> SumOver(world.sent, Procs, i)],
         world.tr, threshold)
    /\ \A q \in Done : world.x[q] = world.x[p]

\* process 1 returned while process 2 is still inside the reduction, holding
\* the norm of a tile that process 2 owns
C8_Witness ==
  /\ world.pc[1] = "done" /\ world.pc[2] = "reducing"
  /\ \E i \in TileOrdinals(world.tr) : world.pmap[i] = 2 /\ world.x[1].norms[i] # Zero

\* C9: if every process calls the collective constructor, every call
\* eventually returns; as long as some process has not called it, no process
\* that called returns.
C9_CollectiveProgress ==
  /\ (\A p \in Procs : world.pc[p] # "idle") ~> (\A p \in Procs : world.pc[p] = "done")
  /\ [][\A p \in Procs :
          (world.pc[p] = "reducing" /\ \E q \in Procs : world.pc[q] = "idle")
            => world'.pc[p] = "reducing"]_vars

\* every process called the constructor and returned from it
C9_Witness ==
  /\ \A p \in Procs : world.pc[p] = "done" /\ ~empty(world.x[p])

PermutedOrdinal(tr, p, i) ==
  Ordinal(Extents(PermApply(p, tr)), PermApply(p, Idx(Extents(tr), i)))

\* the last call is the test call op and returned
Tested(op) == last.op = op /\ last.status = "returned"

\* C11: for A and B over one tile grid and a scalar s (1 when omitted),
\* add(A, B, s) and subt(A, B, s) give the same shape; for every tile i its
\* scaled norm is (A[i] + B[i]) * |s|, or 0 when that is below the
\* threshold, found at the permuted index of i when a permutation is given.
\* A = [2, 0] and B = [0, 0] give [2, 0].
C11_AddSubtSameBound ==
  (Tested("add_perm") \/ Tested("subt_perm")) =>
    LET A == last.a
        B == last.b
        f == last.arg[1]
        q == last.arg[2]
        R == shapes["result"]
    IN  /\ R.tr = PermApply(q, A.tr)
        /\ DOMAIN R.norms = TileOrdinals(R.tr)
        /\ \A i \in TileOrdinals(A.tr) :
             LET sum == <<A.norms[i][1] * B.norms[i][2] + B.norms[i][1] * A.norms[i][2],
                          A.norms[i][2] * B.norms[i][2]>>
                 v   == <<sum[1] * Abs(f[1]), sum[2] * f[2]>>
                 r   == R.norms[PermutedOrdinal(A.tr, q, i)]
             IN  /\ r[1] * v[2] = v[1] * r[2] \/ r = Zero
                 /\ r = Zero <=> (v[1] * last.thr[2] < last.thr[1] * v[2])
        /\ R = IF last.op = "add_perm"
               THEN subt_perm(A, B, f, q, last.thr)
               ELSE add_perm(A, B, f, q, last.thr)
        /\ (/\ A.tr = << <<2, 3>> >> /\ f = One
            /\ A.norms[0] = FromInt(2) /\ A.norms[1] = Zero
            /\ B.norms[0] = Zero /\ B.norms[1] = Zero
            /\ RatLeq(last.thr, FromInt(2))) =>
             R.norms[0] = FromInt(2) /\ R.norms[1] = Zero

\* subt with the factor -2 and a permutation that is not its own inverse put
\* the bound of two non-zero tiles at the permuted index
C11_Witness ==
  /\ Tested("subt_perm")
  /\ last.arg[1] = <<-2, 1>>
  /\ last.arg[2] # PermInv(last.arg[2])
  /\ \E i \in DOMAIN last.a.norms :
       /\ last.a.norms[i] # Zero /\ last.b.norms[i] # Zero
       /\ PermutedOrdinal(last.a.tr, last.arg[2], i) # i
       /\ shapes["result"].norms[PermutedOrdinal(last.a.tr, last.arg[2], i)] # Zero

\* C12: for A and B over one tile grid and a scalar s (1 when omitted),
\* mult(A, B, s) has for every tile i the scaled norm
\* A[i] * B[i] * volume(i) * |s|, or 0 when that is below the threshold, at
\* the permuted index of i when a permutation is given; tile i is zero when
\* A[i] or B[i] is zero, and an all-zero B gives an all-zero result.
C12_MultBound ==
  Tested("mult_perm") =>
    LET A == last.a
        B == last.b
        f == last.arg[1]
        q == last.arg[2]
        R == shapes["result"]
    IN  /\ R.tr = PermApply(q, A.tr)
        /\ DOMAIN R.norms = TileOrdinals(R.tr)
        /\ \A i \in TileOrdinals(A.tr) :
             LET v == <<A.norms[i][1] * B.norms[i][1] * TileVolume(A.tr, i) * Abs(f[1]),
                        A.norms[i][2] * B.norms[i][2] * f[2]>>
                 r == R.norms[PermutedOrdinal(A.tr, q, i)]
             IN  /\ r[1] * v[2] = v[1] * r[2] \/ r = Zero
                 /\ r = Zero <=> (v[1] * last.thr[2] < last.thr[1] * v[2])
                 /\ (A.norms[i] = Zero \/ B.norms[i] = Zero) => r = Zero
        /\ (\A i \in TileOrdinals(B.tr) : B.norms[i] = Zero) =>
             \A o \in TileOrdinals(R.tr) : R.norms[o] = Zero

\* mult with the factor -2 and a permutation that is not its own inverse
\* kept the product of two non-zero tiles at the permuted index and zeroed a
\* tile whose right operand is zero
C12_Witness ==
  /\ Tested("mult_perm")
  /\ last.arg[1] = <<-2, 1>>
  /\ last.arg[2] # PermInv(last.arg[2])
  /\ \E i \in DOMAIN last.a.norms :
       /\ last.a.norms[i] # Zero /\ last.b.norms[i] # Zero
       /\ PermutedOrdinal(last.a.tr, last.arg[2], i) # i
       /\ shapes["result"].norms[PermutedOrdinal(last.a.tr, last.arg[2], i)] # Zero
  /\ \E j \in DOMAIN last.a.norms :
       /\ last.a.norms[j] # Zero /\ last.b.norms[j] = Zero
       /\ shapes["result"].norms[PermutedOrdinal(last.a.tr, last.arg[2], j)] = Zero

\* C13: scale(S, s) has for every tile i the scaled norm |s| * S[i], or 0
\* when that is below the threshold, at the permuted index of i when a
\* permutation is given; a zero tile of S stays zero; [2, 0] scaled by -2
\* is [4, 0], with the sparsity of the argument.
C13_ScaleBound ==
  Tested("scale_perm") =>
    LET A == last.a
        f == last.arg[1]
        q == last.arg[2]
        R == shapes["result"]
    IN  /\ R.tr = PermApply(q, A.tr)
        /\ DOMAIN R.norms = TileOrdinals(R.tr)
        /\ \A i \in TileOrdinals(A.tr) :
             LET v == <<A.norms[i][1] * Abs(f[1]), A.norms[i][2] * f[2]>>
                 r == R.norms[PermutedOrdinal(A.tr, q, i)]
             IN  /\ r[1] * v[2] = v[1] * r[2] \/ r = Zero
                 /\ r = Zero <=> (v[1] * last.thr[2] < last.thr[1] * v[2])
                 /\ A.norms[i] = Zero => r = Zero
        /\ (/\ A.tr = << <<2, 3>> >> /\ f = <<-2, 1>>
            /\ A.norms[0] = FromInt(2) /\ A.norms[1] = Zero) =>
             /\ R.norms[0] = FromInt(4) /\ R.norms[1] = Zero
             /\ sparsity(R, last.thr) = sparsity(A, last.thr)

\* scale by -2 with a permutation that is not its own inverse put the
\* doubled norm of a non-zero tile at the permuted index, and left a zero
\* tile zero
C13_Witness ==
  /\ Tested("scale_perm")
  /\ last.arg[1] = <<-2, 1>>
  /\ last.arg[2] # PermInv(last.arg[2])
  /\ \E i \in DOMAIN last.a.norms :
       /\ last.a.norms[i] # Zero
       /\ PermutedOrdinal(last.a.tr, last.arg[2], i) # i
       /\ shapes["result"].norms[PermutedOrdinal(last.a.tr, last.arg[2], i)] =
            RatMul(last.a.norms[i], FromInt(2))
  /\ \E j \in DOMAIN last.a.norms :
       /\ last.a.norms[j] = Zero
       /\ shapes["result"].norms[PermutedOrdinal(last.a.tr, last.arg[2], j)] = Zero

\* the scenario of C13: [2, 0] scaled by -2 returned [4, 0]
C13_Scenario ==
  /\ Tested("scale_perm")
  /\ last.a.tr = << <<2, 3>> >> /\ last.arg[1] = <<-2, 1>>
  /\ last.a.norms[0] = FromInt(2) /\ last.a.norms[1] = Zero
  /\ shapes["result"].norms[0] = FromInt(4)

\* C14 as stated: for every shape A and scalars s and t,
\* scale(scale(A, s), t) equals scale(A, s * t) on every tile; the threshold
\* applied to the result of the inner scale never changes the final result.
C14_ScaleLinear ==
  Tested("scale_scale") =>
    shapes["result"] = scale(last.a, RatMul(last.arg[1], last.arg[2]), last.thr)

\* the tiles of A whose norm the inner scale(A, s) returns as 0 although it
\* is not 0: 0 < |s| * A[i] < threshold
DroppedByInner(A, f, thr) ==
  {i \in TileOrdinals(A.tr) :
     /\ A.norms[i][1] * Abs(f[1]) > 0
     /\ A.norms[i][1] * Abs(f[1]) * thr[2] < thr[1] * A.norms[i][2] * f[2]}

\* C14: scale(scale(A, s), t) equals scale(A, s * t) on every tile whose
\* intermediate norm |s| * A[i] is zero or at least the threshold, where it
\* is |s * t| * A[i] or 0 when that is below the threshold; on a tile whose
\* intermediate norm is non-zero and below the threshold the nested result
\* is 0.
C14_ScaleLinearUnlessDropped ==
  Tested("scale_scale") =>
    LET A == last.a
        R == shapes["result"]
        s == last.arg[1]
        t == last.arg[2]
    IN  /\ R.tr = A.tr
        /\ DOMAIN R.norms = TileOrdinals(A.tr)
        /\ \A i \in TileOrdinals(A.tr) :
             IF i \in DroppedByInner(A, s, last.thr)
             THEN R.norms[i] = Zero
             ELSE LET v == <<A.norms[i][1] * Abs(s[1] * t[1]), A.norms[i][2] * s[2] * t[2]>>
                      r == R.norms[i]
                  IN  /\ r[1] * v[2] = v[1] * r[2] \/ r = Zero
                      /\ r = Zero <=> (v[1] * last.thr[2] < last.thr[1] * v[2])

\* a nested scale in which one tile kept its intermediate norm and came out
\* non-zero, and another lost its intermediate norm although the scale by
\* the product of the factors keeps it
C14_Witness ==
  /\ Tested("scale_scale")
  /\ \E i \in DOMAIN last.a.norms :
       /\ last.a.norms[i] # Zero
       /\ i \notin DroppedByInner(last.a, last.arg[1], last.thr)
       /\ shapes["result"].norms[i] # Zero
  /\ \E j \in DroppedByInner(last.a, last.arg[1], last.thr) :
       /\ shapes["result"].norms[j] = Zero
       /\ scale(last.a, RatMul(last.arg[1], last.arg[2]), last.thr).norms[j] # Zero

\* C15: perm(P) of a shape S is a shape over the permuted tile grid whose
\* entry at the permuted index P(idx) is the entry of S at idx, for every
\* tile; its sparsity is that of S.
C15_PermMovesEntries ==
  Tested("perm") =>
    LET A == last.a
        q == last.arg
        R == shapes["result"]
    IN  /\ R.tr = PermApply(q, A.tr)
        /\ DOMAIN R.norms = TileOrdinals(R.tr)
        /\ \A i \in TileOrdinals(A.tr) :
             R.norms[PermutedOrdinal(A.tr, q, i)] = A.norms[i]
        /\ sparsity(R, last.thr) = sparsity(A, last.thr)

\* a permutation that is not its own inverse moved a non-zero entry to
\* another ordinal, where the argument has a zero entry
C15_Witness ==
  /\ Tested("perm")
  /\ last.arg # PermInv(last.arg)
  /\ \E i \in DOMAIN last.a.norms :
       LET o == PermutedOrdinal(last.a.tr, last.arg, i)
       IN  /\ o # i
           /\ last.a.norms[i] # Zero /\ last.a.norms[o] = Zero
           /\ shapes["result"].norms[o] = last.a.norms[i]

\* C16: for every shape A and every permutation P of the rank of A,
\* permuting A by P and then by the inverse of P gives A: the tile grid
\* and the entry of every tile.
C16_PermRoundTrip ==
  Tested("perm_perm_inv") =>
    /\ shapes["result"] = last.a
    /\ shapes["result"].tr = last.a.tr
    /\ \A i \in TileOrdinals(last.a.tr) :
         shapes["result"].norms[i] = last.a.norms[i]

\* the round trip through a permutation that is not its own inverse and
\* moves a non-zero entry onto a zero entry
C16_Witness ==
  /\ Tested("perm_perm_inv")
  /\ last.arg # PermInv(last.arg)
  /\ \E i \in DOMAIN last.a.norms :
       LET o == PermutedOrdinal(last.a.tr, last.arg, i)
       IN  /\ o # i
           /\ last.a.norms[i] # Zero /\ last.a.norms[o] = Zero
           /\ perm(last.a, last.arg).norms[o] # Zero
           /\ shapes["result"].norms[o] = Zero

\* C17: mask(A, B) has for every tile i the value A[i], except 0 when
\* A[i] >= threshold and B[i] < threshold; the result is zero wherever A is
\* zero and wherever B is zero, never non-zero where A is zero;
\* sparsity(mask(A, B)) >= sparsity(A), and the number of zero tiles is the
\* number of zero tiles of A plus the number of tiles non-zero in A and zero
\* in B.
C17_MaskZeroes ==
  Tested("mask") =>
    LET A   == last.a
        B   == last.b
        R   == shapes["result"]
        thr == last.thr
        below(x) == x[1] * thr[2] < thr[1] * x[2]
        zeros(S) == {i \in TileOrdinals(A.tr) : below(S.norms[i])}
    IN  /\ R.tr = A.tr
        /\ DOMAIN R.norms = TileOrdinals(A.tr)
        /\ \A i \in TileOrdinals(A.tr) :
             /\ R.norms[i] = IF ~below(A.norms[i]) /\ below(B.norms[i])
                             THEN Zero ELSE A.norms[i]
             /\ (below(A.norms[i]) \/ below(B.norms[i])) => is_zero(R, i, thr)
        /\ RatLeq(sparsity(A, thr), sparsity(R, thr))
        /\ Cardinality(ZeroTiles(R, thr)) =
             Cardinality(zeros(A)) + Cardinality(zeros(B) \ zeros(A))

\* a mask that kept a tile non-zero in both shapes, zeroed a tile non-zero
\* in A and zero in B, and left a zero tile of A zero under a non-zero tile
\* of B
C17_Witness ==
  /\ Tested("mask")
  /\ \E i, j, k \in DOMAIN last.a.norms :
       /\ last.a.norms[i] # Zero /\ last.b.norms[i] # Zero
       /\ shapes["result"].norms[i] = last.a.norms[i]
       /\ last.a.norms[j] # Zero /\ last.b.norms[j] = Zero
       /\ shapes["result"].norms[j] = Zero
       /\ last.a.norms[k] = Zero /\ last.b.norms[k] # Zero
       /\ shapes["result"].norms[k] = Zero

\* numerator and denominator of the sum over k of
\* A[i,k] * volume_A(i,k) * B[k,j] * volume_B(k,j), for rank-2 A and B
RECURSIVE ContractedNorm(_, _, _, _, _)
ContractedNorm(A, B, i, j, k) ==
  IF k = 0 THEN Zero
  ELSE LET oa   == i * Len(A.tr[2]) + (k - 1)
           ob   == (k - 1) * Len(B.tr[2]) + j
           term == <<A.norms[oa][1] * A.tr[1][i + 1] * A.tr[2][k]
                       * B.norms[ob][1] * B.tr[1][k] * B.tr[2][j + 1],
                     A.norms[oa][2] * B.norms[ob][2]>>
           rest == ContractedNorm(A, B, i, j, k - 1)
       IN  <<term[1] * rest[2] + rest[1] * term[2], term[2] * rest[2]>>

\* C18: gemm(A, B, s, helper) has for every result tile (i, j) the scaled
\* norm |s| * (sum over the contracted tile indices k of
\* A[i,k] * volume_A(i,k) * B[k,j] * volume_B(k,j)) divided by the volume of
\* result tile (i, j), or 0 when that is below the threshold; with an output
\* permutation the value is at the permuted result index and the divisor is
\* the volume of the permuted destination tile.
C18_GemmBound ==
  Tested("gemm_perm") =>
    LET A   == last.a
        B   == last.b
        f   == last.arg[1]
        q   == last.arg[2]
        R   == shapes["result"]
        rtr == <<A.tr[1], B.tr[2]>>
    IN  /\ R.tr = PermApply(q, rtr)
        /\ DOMAIN R.norms = TileOrdinals(R.tr)
        /\ \A i \in 0..(Len(A.tr[1]) - 1), j \in 0..(Len(B.tr[2]) - 1) :
             LET dest == Ordinal(Extents(R.tr), PermApply(q, <<i, j>>))
                 sum  == ContractedNorm(A, B, i, j, Len(A.tr[2]))
                 v    == <<sum[1] * Abs(f[1]), sum[2] * f[2] * TileVolume(R.tr, dest)>>
                 r    == R.norms[dest]
             IN  /\ TileVolume(R.tr, dest) = A.tr[1][i + 1] * B.tr[2][j + 1]
                 /\ r[1] * v[2] = v[1] * r[2] \/ r = Zero
                 /\ r = Zero <=> (v[1] * last.thr[2] < last.thr[1] * v[2])

\* a gemm with a transposed result: a non-zero bound of a result tile of
\* more than one element is at the transposed index
C18_Witness ==
  /\ Tested("gemm_perm")
  /\ last.arg[2] = <<2, 1>>
  /\ \E i \in 0..(Len(last.a.tr[1]) - 1), j \in 0..(Len(last.b.tr[2]) - 1) :
       LET dest == Ordinal(Extents(shapes["result"].tr), <<j, i>>)
       IN  /\ i # j
           /\ TileVolume(shapes["result"].tr, dest) > 1
           /\ shapes["result"].norms[dest] # Zero
           /\ shapes["result"].norms[Ordinal(Extents(shapes["result"].tr), <<i, j>>)] = Zero

\* a gemm that contracts two tiles, both with a non-zero product
C18_Contraction ==
  /\ Tested("gemm_perm")
  /\ Len(last.a.tr[2]) = 2
  /\ \A o \in DOMAIN last.a.norms : last.a.norms[o] # Zero
  /\ \A o \in DOMAIN last.b.norms : last.b.norms[o] # Zero
  /\ shapes["result"].norms[0] # Zero

\* C19: for lower and upper bounds with lower[d] < upper[d] on every axis,
\* both inside the tile grid, block(lower, upper[, factor][, perm]) is a
\* shape whose norm tensor starts at 0 and has extent upper[d] - lower[d] on
\* each axis (axes reordered by perm), whose entry at idx is factor times
\* the source entry at idx + lower (component d of the source index is
\* idx[perm[d]] + lower[d] when permuted), and whose sparsity is the fraction
\* of its own entries below the threshold.
C19_BlockEntries ==
  Tested("block_scale_perm") =>
    LET A     == last.a
        lower == last.arg[1]
        upper == last.arg[2]
        f     == last.arg[3]
        q     == last.arg[4]
        R     == shapes["result"]
        rext  == Extents(R.tr)
        n     == Len(A.tr)
    IN  /\ Len(R.tr) = n
        /\ \A d \in 1..n :
             /\ rext[q[d]] = upper[d] - lower[d]
             /\ \A t \in 1..rext[q[d]] : R.tr[q[d]][t] = A.tr[d][lower[d] + t]
        /\ DOMAIN R.norms = 0..(Product(rext) - 1)
        /\ \A o \in DOMAIN R.norms :
             LET idx == Idx(rext, o)
                 src == A.norms[Ordinal(Extents(A.tr), [d \in 1..n |-> idx[q[d]] + lower[d]])]
                 r   == R.norms[o]
             IN  r[1] * src[2] * f[2] = src[1] * f[1] * r[2]
        /\ LET zeros == {o \in DOMAIN R.norms :
                           R.norms[o][1] * last.thr[2] < last.thr[1] * R.norms[o][2]}
               sp    == sparsity(R, last.thr)
           IN  sp[1] * Product(rext) = Cardinality(zeros) * sp[2]

\* a block that does not start at the origin, scaled by 3 and permuted by a
\* permutation that is not its own inverse and reorders its axes: a tile
\* has three times the norm of a source tile of another ordinal and another
\* tile is zero
C19_Witness ==
  /\ Tested("block_scale_perm")
  /\ last.arg[3] = <<3, 1>>
  /\ last.arg[4] # PermInv(last.arg[4])
  /\ \E d \in DOMAIN last.arg[1] : last.arg[1][d] > 0
  /\ Extents(shapes["result"].tr) #
       [d \in DOMAIN last.arg[1] |-> last.arg[2][d] - last.arg[1][d]]
  /\ \E o, z \in DOMAIN shapes["result"].norms :
       /\ shapes["result"].norms[o] # Zero
       /\ shapes["result"].norms[o] # last.a.norms[o]
       /\ shapes["result"].norms[z] = Zero

\* the bounds of the last block call are a block of the source's tile grid
BoundsInGrid ==
  \A d \in 1..Len(last.a.tr) :
    /\ last.arg[1][d] < last.arg[2][d]
    /\ last.arg[2][d] <= Len(last.a.tr[d])

\* C20 as stated: block(lower, upper) fails with an error, returns no shape
\* and leaves the source unchanged whenever lower[d] >= upper[d] for some
\* axis d or a bound lies outside the tile grid; it succeeds for every pair
\* with lower[d] < upper[d] on all axes inside the grid.
C20_BadBlockFails ==
  last.op = "block" =>
    IF BoundsInGrid
    THEN last.status = "returned"
    ELSE /\ last.status \in {"exception", "abort"}
         /\ shapes["result"].empty
         /\ shapes[last.slots[1]] = last.a

\* C20 amended: in a build that checks assertions (TA_EXCEPTION_ERROR, or
\* TA_ASSERT_ERROR without NDEBUG) block(lower, upper) fails with an error,
\* returns no shape and leaves the source unchanged whenever
\* lower[d] >= upper[d] for some axis d or a bound lies outside the tile
\* grid; in every build it succeeds for every pair with
\* lower[d] < upper[d] on all axes inside the grid.
C20_BadBlockFailsWhenChecked ==
  last.op = "block" =>
    IF BoundsInGrid
    THEN /\ last.status = "returned"
         /\ ~shapes["result"].empty
         /\ Extents(shapes["result"].tr) =
              [d \in 1..Len(last.a.tr) |-> last.arg[2][d] - last.arg[1][d]]
         /\ shapes[last.slots[1]] = last.a
    ELSE Checking =>
           /\ last.status \in {"exception", "abort"}
           /\ "TA_EXCEPTION_ERROR" \in defined => last.status = "exception"
           /\ shapes["result"].empty
           /\ shapes[last.slots[1]] = last.a

\* block threw for an upper bound outside the grid although lower < upper
\* on every axis
C20_Witness ==
  /\ last.op = "block" /\ last.status = "exception"
  /\ \A d \in 1..Len(last.a.tr) : last.arg[1][d] < last.arg[2][d]
  /\ \E d \in 1..Len(last.a.tr) : last.arg[2][d] > Len(last.a.tr[d])
  /\ shapes["result"].empty /\ ~shapes["left"].empty

\* block threw for an empty interval inside the grid
C20_EmptyInterval ==
  /\ last.op = "block" /\ last.status = "exception"
  /\ \E d \in 1..Len(last.a.tr) : last.arg[1][d] = last.arg[2][d]
  /\ \A d \in 1..Len(last.a.tr) : last.arg[2][d] <= Len(last.a.tr[d])

\* C21: add(A, c) and subt(A, c) with a constant c give the same shape;
\* for every tile i the scaled norm is
\* A[i] + sqrt(c * c * volume(i)) / volume(i), whatever the sign of c, or 0
\* when that is below the threshold, at the permuted index of i when a
\* permutation is given.
C21_AddSubtConst ==
  (Tested("add_const_perm") \/ Tested("subt_const_perm")) =>
    LET A == last.a
        c == last.arg[1]
        q == last.arg[2]
        R == shapes["result"]
    IN  /\ R.tr = PermApply(q, A.tr)
        /\ DOMAIN R.norms = TileOrdinals(R.tr)
        /\ \A i \in TileOrdinals(A.tr) :
             \E root \in 1..TileVolume(A.tr, i) :
               /\ root * root = TileVolume(A.tr, i)
               /\ LET vol == TileVolume(A.tr, i)
                      v   == <<A.norms[i][1] * c[2] * vol + Abs(c[1]) * root * A.norms[i][2],
                               A.norms[i][2] * c[2] * vol>>
                      r   == R.norms[PermutedOrdinal(A.tr, q, i)]
                  IN  /\ r[1] * v[2] = v[1] * r[2] \/ r = Zero
                      /\ r = Zero <=> (v[1] * last.thr[2] < last.thr[1] * v[2])
        /\ R = IF last.op = "add_const_perm"
               THEN subt_const_perm(A, c, q, last.thr)
               ELSE add_const_perm(A, c, q, last.thr)
        /\ R = add_const_perm(A, <<-c[1], c[2]>>, q, last.thr)

\* subt of the constant -2 with a permutation that is not its own inverse:
\* a tile that is zero in A has the norm of the constant at the permuted
\* index, and a tile of 16 elements whose sum is below the threshold is zero
C21_Witness ==
  /\ Tested("subt_const_perm")
  /\ last.arg[1] = <<-2, 1>>
  /\ last.arg[2] # PermInv(last.arg[2])
  /\ \E i, j \in DOMAIN last.a.norms :
       /\ last.a.norms[i] = Zero
       /\ PermutedOrdinal(last.a.tr, last.arg[2], i) # i
       /\ shapes["result"].norms[PermutedOrdinal(last.a.tr, last.arg[2], i)] # Zero
       /\ TileVolume(last.a.tr, j) = 16
       /\ shapes["result"].norms[PermutedOrdinal(last.a.tr, last.arg[2], j)] = Zero

\* the output of the operator of the test suite for tile i of a tensor whose
\* entry i is x: doubled at an even ordinal, halved at an odd one
OpOutput(x, i) == IF i % 2 = 0 THEN <<2 * x[1], x[2]>> ELSE <<x[1], 2 * x[2]>>

\* the last transform returned entry i as v, or as 0 when v is below the
\* threshold, and is_zero tells which
ThresholdedOutput(i, v) ==
  LET r == shapes["result"].norms[i]
  IN  /\ r[1] * v[2] = v[1] * r[2] \/ r = Zero
      /\ r = Zero <=> (v[1] * last.thr[2] < last.thr[1] * v[2])
      /\ is_zero(shapes["result"], i, last.thr) <=>
           (v[1] * last.thr[2] < last.thr[1] * v[2])

\* the result of the last transform is over the grid of A, its sparsity is
\* the fraction of its entries below the threshold, and A is unchanged
TransformFrame ==
  LET R == shapes["result"]
      zeros == {i \in DOMAIN R.norms :
                  R.norms[i][1] * last.thr[2] < last.thr[1] * R.norms[i][2]}
      sp == sparsity(R, last.thr)
  IN  /\ R.tr = last.a.tr
      /\ DOMAIN R.norms = TileOrdinals(last.a.tr)
      /\ sp[1] * Cardinality(DOMAIN R.norms) = Cardinality(zeros) * sp[2]
      /\ shapes[last.slots[1]] = last.a

\* C22 as stated: transform(A, f) applies f to the full unscaled norm tensor
\* of A (norm times the volume of the tile) and returns a shape in which
\* every entry is the output of f for that tile, or 0 when that is below the
\* threshold, with is_zero and sparsity consistent with the thresholded
\* output; A is unchanged.
C22_TransformOfUnscaled ==
  Tested("transform") =>
    /\ TransformFrame
    /\ \A i \in TileOrdinals(last.a.tr) :
         ThresholdedOutput(i,
           OpOutput(<<last.a.norms[i][1] * TileVolume(last.a.tr, i), last.a.norms[i][2]>>, i))

\* C22: transform(A, f) applies f to the full norm tensor of A as stored,
\* the scaled norms, and returns a shape in which every entry is the output
\* of f for that tile, or 0 when that is below the threshold, with is_zero
\* and sparsity consistent with the thresholded output; A is unchanged.
C22_TransformOfScaled ==
  Tested("transform") =>
    /\ TransformFrame
    /\ \A i \in TileOrdinals(last.a.tr) :
         ThresholdedOutput(i, OpOutput(last.a.norms[i], i))

\* a transform that doubled the norm of a tile of more than one element and
\* halved another norm to below the threshold
C22_Witness ==
  /\ Tested("transform")
  /\ \E i, j \in DOMAIN last.a.norms :
       /\ TileVolume(last.a.tr, i) > 1
       /\ last.a.norms[i] # Zero
       /\ shapes["result"].norms[i] = RatMul(last.a.norms[i], FromInt(2))
       /\ last.a.norms[j] # Zero
       /\ shapes["result"].norms[j] = Zero

\* the calls whose computed norms C23 follows: the constructor and the
\* scaled and permuted scale, add, subt and mult
BoundaryOps == {"ctor", "scale_perm", "add_perm", "subt_perm", "mult_perm"}

\* the scaled norm the last call computed for tile i of its first operand
\* (of the tiled range, for the constructor), before the threshold policy
ComputedNorm(i) ==
  LET A == last.a
      B == last.b
      f == last.arg[1]
  IN  CASE last.op = "ctor" ->
             <<tile_norms[last.slots[1]][i], TileVolume(last.arg, i)>>
        [] last.op = "scale_perm" ->
             <<A.norms[i][1] * Abs(f[1]), A.norms[i][2] * f[2]>>
        [] last.op \in {"add_perm", "subt_perm"} ->
             <<(A.norms[i][1] * B.norms[i][2] + B.norms[i][1] * A.norms[i][2]) * Abs(f[1]),
               A.norms[i][2] * B.norms[i][2] * f[2]>>
        [] last.op = "mult_perm" ->
             <<A.norms[i][1] * B.norms[i][1] * TileVolume(A.tr, i) * Abs(f[1]),
               A.norms[i][2] * B.norms[i][2] * f[2]>>

\* the tiles of the last call's computation
ComputedTiles ==
  IF last.op = "ctor" THEN TileOrdinals(last.arg) ELSE TileOrdinals(last.a.tr)

\* the shape the last call produced and the ordinal where it put tile i
ProducedShape == IF last.op = "ctor" THEN shapes[last.slots[1]] ELSE shapes["result"]

ProducedOrdinal(i) ==
  IF last.op = "ctor" THEN i ELSE PermutedOrdinal(last.a.tr, last.arg[2], i)

C23_ConstructorBoundary ==
  /\ last.op = "ctor"
  /\ \E i \in ComputedTiles :
       /\ ComputedNorm(i)[1] * last.thr[2] = last.thr[1] * ComputedNorm(i)[2]
       /\ ProducedShape.norms[i] = last.thr

\* the shape the last call produced is thresholded with the threshold now in
\* force: the call recorded it, and an entry is 0 exactly when the computed
\* norm is below it, else the computed norm
ThresholdInForceUsed ==
  last.op \in BoundaryOps =>
    /\ last.thr = threshold
    /\ \A i \in ComputedTiles :
         LET v == ComputedNorm(i)
             r == ProducedShape.norms[ProducedOrdinal(i)]
         IN  IF v[1] * threshold[2] < threshold[1] * v[2]
             THEN r = Zero
             ELSE r[1] * v[2] = v[1] * r[2]

\* C24: changing the global threshold leaves the stored norms of every
\* existing shape unchanged; a shape computed by a constructor or an algebra
\* call made after the change is thresholded with the value in force at the
\* time of that call.
C24_ThresholdChangeNotRetroactive ==
  [][/\ threshold' # threshold =>
          /\ shapes' = shapes
          /\ tile_norms' = tile_norms
     /\ shapes' # shapes =>
          /\ threshold' = threshold
          /\ ThresholdInForceUsed'
          /\ \A s \in Slots :
               shapes'[s] # shapes[s] => (s = "result" \/ last'.slots = <<s>>)]_vars

\* a fixture built under the threshold 1 holds a non-zero norm below the
\* threshold 2 set afterwards, and a scale called after the change snapped
\* its result with the threshold 2
C24_Witness ==
  /\ Tested("scale_perm")
  /\ threshold = <<2, 1>> /\ last.thr = threshold
  /\ shapes["left"] = last.a
  /\ \E i, j \in DOMAIN last.a.norms :
       /\ last.a.norms[i] # Zero /\ RatLess(last.a.norms[i], threshold)
       /\ ComputedNorm(j) # Zero /\ RatLess(ComputedNorm(j), threshold)
       /\ ~RatLess(ComputedNorm(j), <<1, 1>>)
       /\ shapes["result"].norms[ProducedOrdinal(j)] = Zero

\* C25: the constructor taking a list of (tile multi-index, norm) pairs
\* that holds exactly the tiles with a norm > 0 produces the shape of the
\* constructor taking the full norm tensor: equal scaled norm and equal
\* unscaled norm for every tile, the tiles absent from the list being zero;
\* for the non-distributed and for the distributed variant.
C25_SparseCtorEqualsDense ==
  (Tested("ctor_sparse") \/ Tested("comm_ctor_sparse")) =>
    LET tr    == last.a.tr
        raw   == tile_norms[last.slots[1]]
        R     == shapes["result"]
        dense == IF last.op = "ctor_sparse" THEN shapes[last.slots[1]]
                 ELSE CommCtor(raw, last.arg, tr, last.thr)
    IN  /\ R.tr = tr
        /\ DOMAIN R.norms = TileOrdinals(tr)
        /\ \A i \in TileOrdinals(tr) :
             /\ R.norms[i] = dense.norms[i]
             /\ tile_norms_of(R)[i] = tile_norms_of(dense)[i]
             /\ raw[i] = 0 => R.norms[i] = Zero
             /\ LET v == <<raw[i], TileVolume(tr, i)>>
                    r == R.norms[i]
                IN  /\ r[1] * v[2] = v[1] * r[2] \/ r = Zero
                    /\ r = Zero <=> (v[1] * last.thr[2] < last.thr[1] * v[2])

\* the distributed constructor got lists from two processes that each own a
\* tile with a norm > 0, for a tensor with a tile that is in no list, and
\* kept the norm of a tile of more than one element
C25_Witness ==
  /\ Tested("comm_ctor_sparse")
  /\ \E i, j, k \in DOMAIN last.a.norms :
       /\ tile_norms["left"][i] > 0 /\ tile_norms["left"][j] > 0
       /\ last.arg[i] # last.arg[j]
       /\ TileVolume(last.a.tr, i) > 1
       /\ shapes["result"].norms[i] # Zero
       /\ tile_norms["left"][k] = 0
       /\ shapes["result"].norms[k] = Zero

\* the non-distributed constructor got a list without one of the tiles
C25_NonDistributed ==
  /\ Tested("ctor_sparse")
  /\ \E i, k \in DOMAIN last.a.norms :
       /\ TileVolume(last.a.tr, i) > 1 /\ shapes["result"].norms[i] # Zero
       /\ tile_norms["left"][k] = 0 /\ shapes["result"].norms[k] = Zero

\* the last call was erroneous: an operation on an Empty shape, a block with
\* bounds that are no block of the grid, or a binary operation or
\* contraction on operands that do not fit
Erroneous ==
  \/ last.op \in EmptyShapeOps /\ last.a.empty
  \/ last.op = "block" /\ ~last.a.empty /\ ~BoundsInGrid
  \/ /\ last.op \in {"add", "subt", "mult"}
     /\ ~last.a.empty /\ ~last.b.empty /\ last.a.tr # last.b.tr
  \/ /\ last.op = "gemm"
     /\ ~last.a.empty /\ ~last.b.empty
     /\ ~(Len(last.a.tr) = 2 /\ Len(last.b.tr) = 2 /\ last.a.tr[2] = last.b.tr[1])

\* C26 as stated: every erroneous call (operation on an Empty shape,
\* mismatched tile grids or ranks, out-of-range block bounds, inconsistent
\* contraction partition) is surfaced to the caller at the point of the call
\* as a failure, in every error-checking configuration of TA_ASSERT; no
\* configuration lets the call proceed and return a result.
C26_ErrorsAlwaysSurface ==
  Erroneous => last.status \in {"exception", "abort"}

\* C26: every erroneous call is surfaced at the point of the call as a
\* failure in the configurations of TA_ASSERT that check: an exception with
\* TA_EXCEPTION_ERROR, an abort with TA_ASSERT_ERROR unless NDEBUG is
\* defined, and no shape is returned.  With TA_NO_ERROR, or TA_ASSERT_ERROR
\* and NDEBUG, the call is not checked and proceeds.
C26_ErrorsSurfaceWhenChecked ==
  Erroneous =>
    IF "TA_EXCEPTION_ERROR" \in defined
    THEN last.status = "exception" /\ shapes["result"].empty
    ELSE IF "TA_ASSERT_ERROR" \in defined /\ "NDEBUG" \notin defined
    THEN last.status = "abort" /\ shapes["result"].empty
    ELSE last.status \in {"crash", "returned"}

\* an add of two shapes over different tile grids aborted in the build with
\* assert(), and so ended the process
C26_Witness ==
  /\ last.op = "add" /\ last.status = "abort"
  /\ ~last.a.empty /\ ~last.b.empty
  /\ last.a.tr # last.b.tr
  /\ "TA_ASSERT_ERROR" \in defined /\ "TA_EXCEPTION_ERROR" \notin defined
  /\ ~Running

\* a contraction of operands that do not fit threw
C26_ContractionThrew ==
  /\ last.op = "gemm" /\ last.status = "exception"
  /\ ~last.a.empty /\ ~last.b.empty

\* an erroneous call returned a shape in a build without error checking
C26_Unchecked ==
  /\ Erroneous /\ last.status = "returned"
  /\ ~shapes["result"].empty

\* C27 as stated: after fuse_vector_of_arrays(arrays, block_size) with
\* block_size >= 1, the shape subshape_from_fused_array extracts for
\* subarray i holds, for every tile t, a scaled norm that is at least the
\* scaled norm of tile t in the shape of arrays[i], and a tile that is
\* non-zero in arrays[i] is non-zero in the extracted shape.
C27_SplitNeverUnderEstimates ==
  fuse.split # <<>> =>
    \A t \in TileOrdinals(fuse.arrays[1].tr) :
      LET a == fuse.arrays[fuse.split.i + 1].norms[t]
          s == fuse.split.shape.norms[t]
      IN  /\ a[1] * s[2] <= s[1] * a[2]
          /\ a[1] # 0 => s[1] # 0

\* a tile of a source array that is not zero, in a fused tile that is
\* zero, is zero in the shape extracted for the source array
C27_DroppedTile ==
  /\ fuse.split # <<>>
  /\ \E t \in TileOrdinals(fuse.arrays[1].tr) :
       /\ fuse.arrays[fuse.split.i + 1].norms[t][1] # 0
       /\ fuse.split.shape.norms[t][1] = 0

\* the extent along the vector mode of the fused tile a task builds, from
\* the number of arrays and the block size
VectorExtent(fused_tile_ord) ==
  LET n     == Len(fuse.arrays)
      first == (fused_tile_ord \div Volume(Extents(fuse.arrays[1].tr))) * fuse.block_size
  IN  IF first + fuse.block_size <= n THEN fuse.block_size ELSE n - first

\* C28: every task fuse_vector_of_arrays adds for a non-zero fused tile was
\* given as many input-tile futures as the fused tile is long along the
\* vector mode, the shorter last fused tile included; a task that has run
\* found every one of its futures ready, and neither assertion of make_tile
\* failed.
C28_MakeTileAssertionsHold ==
  \A o \in DOMAIN fuse.tasks :
    LET task == fuse.tasks[o]
    IN  /\ Len(task.tiles) = VectorExtent(o)
        /\ task.extent0 = VectorExtent(o)
        /\ task.status \in {"queued", "done"}
        /\ task.status = "done" =>
             \A k \in 1..Len(task.tiles) : task.tiles[k] \in fuse.ready

\* three arrays fused in blocks of two: the task of a tile of the shorter
\* last fused tile has run
C28_Witness ==
  /\ Len(fuse.arrays) = 3
  /\ fuse.block_size = 2
  /\ \E o \in DOMAIN fuse.tasks :
       /\ o \div Volume(Extents(fuse.arrays[1].tr)) = 1
       /\ Len(fuse.tasks[o].tiles) = 1
       /\ fuse.tasks[o].status = "done"

\* a task of a full fused tile has run after both its input tiles arrived
C28_FullTile ==
  \E o \in DOMAIN fuse.tasks :
    /\ Len(fuse.tasks[o].tiles) = 2
    /\ fuse.tasks[o].status = "done"

\* C29 as stated: every tile fuse_vector_of_arrays requests with find from
\* arrays[vidx] is non-zero in the shape of arrays[vidx].
C29_OnlyNonZeroTilesRequested ==
  \A o \in DOMAIN fuse.tasks :
    \A k \in 1..Len(fuse.tasks[o].tiles) :
      LET vidx     == fuse.tasks[o].tiles[k][1]
          tile_ord == fuse.tasks[o].tiles[k][2]
      IN  fuse.arrays[vidx + 1].norms[tile_ord][1] # 0

\* a task waits for a tile that is zero in its array
C29_ZeroTileRequested ==
  \E o \in DOMAIN fuse.tasks :
    \E k \in 1..Len(fuse.tasks[o].tiles) :
      fuse.arrays[fuse.tasks[o].tiles[k][1] + 1].norms[fuse.tasks[o].tiles[k][2]][1] = 0

\* fuse_vector_of_tranges has returned
TRangeBuilt == fuse.pc \notin {"tranges", "bad_alloc"}

\* the tiled range returned: boundaries 0, block_size, 2 * block_size, ..,
\* n of the leading mode, ceil(n / block_size) tiles of extent block_size
\* but for a shorter last one, then the modes of the arrays' tiled range
TRangeAsClaimed ==
  LET n      == Len(fuse.arrays)
      bs     == fuse.block_size
      ntiles == (n + bs - 1) \div bs
      v      == fuse.new_trange1_v
      tr     == fuse.fused_trange
  IN  /\ Len(v) = ntiles + 1
      /\ \A k \in 1..ntiles : v[k] = (k - 1) * bs
      /\ v[ntiles + 1] = n
      /\ Len(tr) = Len(fuse.arrays[1].tr) + 1
      /\ Len(tr[1]) = ntiles
      /\ \A k \in 1..ntiles : tr[1][k] = IF k * bs <= n THEN bs ELSE n - (k - 1) * bs
      /\ \A d \in 1..Len(fuse.arrays[1].tr) : tr[d + 1] = fuse.arrays[1].tr[d]

C30_NeverReturns ==
  /\ fuse.block_size = 0
  /\ fuse.pc = "bad_alloc"

====
